---------------------------- MODULE Spec2Model ----------------------------
(***************************************************************************)
(* A model of the lazy-module part of @angular/upgrade/static:             *)
(*   - downgradeModule()            static/src/static/downgrade_module.js  *)
(*   - the temporary injector cell  static/src/angular1_providers.js       *)
(*   - validateInjectionKey() etc.  common/util.js                         *)
(* together with the part of the AngularJS injector ($injector) that these *)
(* functions drive: constants, factories, the singleton instance cache and *)
(* the configuration blocks of the modules that are loaded.                *)
(*                                                                         *)
(* JavaScript runs one callback at a time, so every action below is one    *)
(* synchronous call (or one promise continuation) run to completion.       *)
(***************************************************************************)
EXTENDS Integers, Sequences, FiniteSets, TLC

(***************************************************************************)
(* Bounds of the model.                                                    *)
(***************************************************************************)
\* downgradeModule() is called at most this many times
MaxModules == 2
\* setTempInjectorRef() is called at most this many times between two reads
MaxWrites == 3
\* the elements that carry a downgraded component
MaxElements == 2
\* then() is called at most this many times on one ParentInjectorPromise
MaxThens == 3

(***************************************************************************)
(* Values.  Objects are records [kind, of] so that any two can be compared.*)
(***************************************************************************)
Obj(kind, of) == [kind |-> kind, of |-> of]

\* JavaScript null / undefined
NULL == Obj("null", 0)

\* the AngularJS injector objects a caller may hand to setTempInjectorRef;
\* the injector of the running AngularJS application is Ng1Injector
Ng1Injector == Obj("$injector", 1)
Ng1Injectors == {Obj("$injector", 1), Obj("$injector", 2)}

\* the NgModuleRef.injector that the bootstrap function of module uid produces
ModuleInjector(uid) == Obj("NgModuleRef.injector", uid)

\* new NgAdapterInjector(ref.injector)
NgAdapterInjector(modInjector) == Obj("NgAdapterInjector", modInjector.of)

\* the record `result` that the lazy-module-reference factory of module uid returns
LazyModuleRefObj(uid) == Obj("LazyModuleRef", uid)

(***************************************************************************)
(* Names and keys.  A string is a sequence of tokens and `a${b}` is \o.    *)
(***************************************************************************)
\* the strings imported from common/constants: five different tokens
UPGRADE_MODULE_NAME == "UPGRADE_MODULE_NAME"
LAZY_MODULE_REF == "LAZY_MODULE_REF"
INJECTOR_KEY == "INJECTOR_KEY"
UPGRADE_APP_TYPE_KEY == <<"UPGRADE_APP_TYPE_KEY">>
DOWNGRADED_MODULE_COUNT_KEY == <<"DOWNGRADED_MODULE_COUNT_KEY">>

\* const enum UpgradeAppType
AppTypeNone == 0
AppTypeDynamic == 1
AppTypeStatic == 2
AppTypeLite == 3

\* `${UPGRADE_MODULE_NAME}.lazy${++moduleUid}`
LazyModuleName(uid) == <<UPGRADE_MODULE_NAME, ".lazy", uid>>
\* the numeric suffix of a generated module name
NameSuffix(name) == name[Len(name)]
\* `${LAZY_MODULE_REF}${lazyModuleName}`
LazyModuleRefKey(name) == <<LAZY_MODULE_REF>> \o name
\* `${INJECTOR_KEY}${lazyModuleName}`
LazyInjectorKey(name) == <<INJECTOR_KEY>> \o name

\* the module names a caller may pass: none (''), a generated one, or one
\* that downgradeModule() never returned
Names == {<<>>} \cup {LazyModuleName(u) : u \in 1..(MaxModules + 1)}
Keys == {LazyModuleRefKey(n) : n \in Names} \cup {LazyInjectorKey(n) : n \in Names}

(***************************************************************************)
(* State.                                                                  *)
(***************************************************************************)
VARIABLES
  moduleUid,        \* downgrade_module.js: let moduleUid = 0
  returned,         \* the names downgradeModule() has returned, in call order
  injector,         \* per downgradeModule() call: its closure variable `injector`
  lazyModuleRef,    \* per module: the `result` record {injector, promise}
  bootstrap,        \* per module: the state of bootstrapFn's promise
  bootstrapCalls,   \* per module: how often bootstrapFn has been invoked
  injectorAssigns,  \* per module: how often `injector` has been assigned
  tempInjectorRef,  \* angular1_providers.js: var tempInjectorRef = null
  writes,           \* values written to the cell since its last successful read
  cellRead,         \* the outcome of the latest injectorFactory() call
  angularHasNg1,    \* an Angular injector has instantiated its '$injector' provider
  phase,            \* "config": $injector is loading modules; "run": it is in use
  loaded,           \* the lazy modules loaded into $injector, in load order
  constants,        \* $injector: the constants, key -> value
  factories,        \* $injector: the factories, key -> what the factory is
  cache,            \* $injector: the singleton instances, key -> value
  last,             \* the outcome of the latest call made on $injector
  pip,              \* per element: the ParentInjectorPromise constructed for it
  data,             \* per element: element.data(injectorKey)
  cbCalls,          \* per element: the callbacks invoked by its promise, in order
  lastPip,          \* the latest then() / resolve() call and how it ended
  link,             \* per element: the link() invocation of the downgraded component
  log,              \* per element: what its link has done so far, in order
  running,          \* the element whose doDowngrade is on the call stack (0: none)
  angular,          \* common/angular1.js: let angular = {bootstrap: noNg, ...}
  version,          \* common/angular1.js: export let version = angular.version
  ngCall            \* the latest call of an exported wrapper or getter and how it ended

vars == <<moduleUid, returned, injector, lazyModuleRef, bootstrap, bootstrapCalls,
          injectorAssigns, tempInjectorRef, writes, cellRead, angularHasNg1,
          phase, loaded, constants, factories, cache, last,
          pip, data, cbCalls, lastPip, link, log, running,
          angular, version, ngCall>>

lazyVars == <<injector, lazyModuleRef, bootstrap, bootstrapCalls, injectorAssigns>>
cellVars == <<tempInjectorRef, writes, cellRead, angularHasNg1>>
diVars == <<phase, loaded, constants, factories, cache>>
pipVars == <<pip, data, cbCalls, lastPip>>
\* the state of the elements and of the components linked on them
linkVars == <<link, log, running>>
elemVars == <<pipVars, linkVars>>
\* the AngularJS global of common/angular1.js
ngVars == <<angular, version, ngCall>>

Uids == 1..MaxModules

\* the latest call made on $injector and how it ended
Called(op, name, key, outcome, value) ==
  [op |-> op, name |-> name, key |-> key, outcome |-> outcome, value |-> value]
NoCall == Called("none", <<>>, <<>>, "none", NULL)
\* a call of injectorFactory(): how it ended, the writes since the successful read
\* before it, and how the call before it ended
Read(outcome, value, ws, prev) ==
  [outcome |-> outcome, value |-> value, writes |-> ws, prev |-> prev]
NoRead == Read("none", NULL, <<>>, "none")

(***************************************************************************)
(* The temporary injector cell.                                            *)
(***************************************************************************)
\* (mutant) a write that does not replace a value still waiting to be read
SetTempInjectorRefKeepFirst(ref, inj) == IF ref = NULL THEN inj ELSE ref

\* setTempInjectorRef(injector): the new content of the cell
SetTempInjectorRef(ref, inj) == inj

\* (mutant) a read that does not clear the cell
InjectorFactoryNoClear(ref) ==
  IF ref = NULL
    THEN [outcome |-> "throw", value |-> NULL, ref |-> ref]
    ELSE [outcome |-> "return", value |-> ref, ref |-> ref]

\* injectorFactory(): throws on an empty cell, else returns its content and
\* clears it; `ref` is the content of the cell afterwards
InjectorFactory(ref) ==
  IF ref = NULL
    THEN [outcome |-> "throw", value |-> NULL, ref |-> ref]
    ELSE [outcome |-> "return", value |-> ref, ref |-> NULL]

\* a direct call of the exported setTempInjectorRef
CellSet(inj) ==
  /\ Len(writes) < MaxWrites
  /\ tempInjectorRef' = SetTempInjectorRef(tempInjectorRef, inj)
  /\ writes' = Append(writes, inj)
  /\ UNCHANGED <<cellRead, angularHasNg1>>
  /\ UNCHANGED <<ngVars, moduleUid, returned, lazyVars, diVars, last, elemVars>>

\* a direct call of the exported injectorFactory
CellGet ==
  LET r == InjectorFactory(tempInjectorRef) IN
  /\ tempInjectorRef' = r.ref
  /\ cellRead' = Read(r.outcome, r.value, writes, cellRead.outcome)
  /\ writes' = IF r.outcome = "return" THEN <<>> ELSE writes
  /\ UNCHANGED angularHasNg1
  /\ UNCHANGED <<ngVars, moduleUid, returned, lazyVars, diVars, last, elemVars>>

(***************************************************************************)
(* $injector: has / get of constants, and the helpers of common/util.js.   *)
(***************************************************************************)
\* $injector.has(key)
Has(c, f, key) == key \in (DOMAIN c \cup DOMAIN f)

GetDowngradedModuleCount(c) ==
  IF DOWNGRADED_MODULE_COUNT_KEY \in DOMAIN c THEN c[DOWNGRADED_MODULE_COUNT_KEY] ELSE 0

GetUpgradeAppType(c) ==
  IF UPGRADE_APP_TYPE_KEY \in DOMAIN c THEN c[UPGRADE_APP_TYPE_KEY] ELSE AppTypeNone

\* (mutant) a switch without `case 2 /* Static */`
ValidateInjectionKeyNoStatic(c, f, downgradedModule, injectionKey) ==
  LET upgradeAppType == GetUpgradeAppType(c)
      downgradedModuleCount == GetDowngradedModuleCount(c)
  IN CASE upgradeAppType = AppTypeDynamic ->
            IF downgradedModule # <<>> THEN "unexpectedly specified" ELSE "ok"
       [] upgradeAppType = AppTypeLite ->
            IF downgradedModule = <<>> /\ downgradedModuleCount >= 2
              THEN "not specified"
              ELSE IF ~Has(c, f, injectionKey)
                     THEN "unable to find"
                     ELSE "ok"
       [] OTHER -> "not a valid application"

\* (mutant) `downgradedModuleCount > 2` for `>= 2`
ValidateInjectionKeyOffByOne(c, f, downgradedModule, injectionKey) ==
  LET upgradeAppType == GetUpgradeAppType(c)
      downgradedModuleCount == GetDowngradedModuleCount(c)
  IN CASE upgradeAppType \in {AppTypeDynamic, AppTypeStatic} ->
            IF downgradedModule # <<>> THEN "unexpectedly specified" ELSE "ok"
       [] upgradeAppType = AppTypeLite ->
            IF downgradedModule = <<>> /\ downgradedModuleCount > 2
              THEN "not specified"
              ELSE IF ~Has(c, f, injectionKey)
                     THEN "unable to find"
                     ELSE "ok"
       [] OTHER -> "not a valid application"

\* (mutant) a switch without its `default`
ValidateInjectionKeyNoDefault(c, f, downgradedModule, injectionKey) ==
  LET upgradeAppType == GetUpgradeAppType(c)
      downgradedModuleCount == GetDowngradedModuleCount(c)
  IN CASE upgradeAppType \in {AppTypeDynamic, AppTypeStatic} ->
            IF downgradedModule # <<>> THEN "unexpectedly specified" ELSE "ok"
       [] upgradeAppType = AppTypeLite ->
            IF downgradedModule = <<>> /\ downgradedModuleCount >= 2
              THEN "not specified"
              ELSE IF ~Has(c, f, injectionKey)
                     THEN "unable to find"
                     ELSE "ok"
       [] OTHER -> "ok"

\* validateInjectionKey($injector, downgradedModule, injectionKey, attemptedAction):
\* "ok" when it returns, else which error it throws
ValidateInjectionKey(c, f, downgradedModule, injectionKey) ==
  LET upgradeAppType == GetUpgradeAppType(c)
      downgradedModuleCount == GetDowngradedModuleCount(c)
  IN CASE upgradeAppType \in {AppTypeDynamic, AppTypeStatic} ->
            IF downgradedModule # <<>> THEN "unexpectedly specified" ELSE "ok"
       [] upgradeAppType = AppTypeLite ->
            IF downgradedModule = <<>> /\ downgradedModuleCount >= 2
              THEN "not specified"
              ELSE IF ~Has(c, f, injectionKey)
                     THEN "unable to find"
                     ELSE "ok"
       [] OTHER -> "not a valid application"

(***************************************************************************)
(* downgradeModule().                                                      *)
(***************************************************************************)
\* (mutant) a counter that starts again at every call
NextModuleUidReset(uid) == 1

\* ++moduleUid
NextModuleUid(uid) == uid + 1

\* (mutant) LAZY_MODULE_REF registered with the factory itself, not [lazyModuleRefKey, identity]
ModuleFactoriesOwnRef(uid) ==
  LET name == LazyModuleName(uid) IN
     (<<INJECTOR_KEY>> :> [type |-> "identity", dep |-> LazyInjectorKey(name), uid |-> uid])
  @@ (LazyInjectorKey(name) :> [type |-> "lazyInjector", dep |-> <<>>, uid |-> uid])
  @@ (<<LAZY_MODULE_REF>> :> [type |-> "lazyModuleRef", dep |-> <<>>, uid |-> uid])
  @@ (LazyModuleRefKey(name) :> [type |-> "lazyModuleRef", dep |-> <<>>, uid |-> uid])

\* (mutant) factories that all close over the state of the first downgradeModule() call
ModuleFactoriesSharedClosure(uid) ==
  LET name == LazyModuleName(uid) IN
     (<<INJECTOR_KEY>> :> [type |-> "identity", dep |-> LazyInjectorKey(name), uid |-> 1])
  @@ (LazyInjectorKey(name) :> [type |-> "lazyInjector", dep |-> <<>>, uid |-> 1])
  @@ (<<LAZY_MODULE_REF>> :> [type |-> "identity", dep |-> LazyModuleRefKey(name), uid |-> 1])
  @@ (LazyModuleRefKey(name) :> [type |-> "lazyModuleRef", dep |-> <<>>, uid |-> 1])

\* what the module registered for uid provides once it is loaded:
\*   .factory(INJECTOR_KEY, [lazyInjectorKey, identity])
\*   .factory(lazyInjectorKey, () => ...)
\*   .factory(LAZY_MODULE_REF, [lazyModuleRefKey, identity])
\*   .factory(lazyModuleRefKey, [$INJECTOR, ($injector) => ...])
ModuleFactories(uid) ==
  LET name == LazyModuleName(uid) IN
     (<<INJECTOR_KEY>> :> [type |-> "identity", dep |-> LazyInjectorKey(name), uid |-> uid])
  @@ (LazyInjectorKey(name) :> [type |-> "lazyInjector", dep |-> <<>>, uid |-> uid])
  @@ (<<LAZY_MODULE_REF>> :> [type |-> "identity", dep |-> LazyModuleRefKey(name), uid |-> uid])
  @@ (LazyModuleRefKey(name) :> [type |-> "lazyModuleRef", dep |-> <<>>, uid |-> uid])

\* (mutant) a configuration block that does not read the count recorded so far
ConfigCountFirst(c) == 1

\* the configuration block: the count it records
ConfigCount(c) == GetDowngradedModuleCount(c) + 1

\* (mutant) a downgradeModule() that invokes bootstrapFn itself
DowngradeModuleEager ==
  /\ moduleUid < MaxModules
  /\ moduleUid' = NextModuleUid(moduleUid)
  /\ returned' = Append(returned, LazyModuleName(moduleUid'))
  /\ bootstrapCalls' = [bootstrapCalls EXCEPT ![moduleUid'] = @ + 1]
  /\ bootstrap' = [bootstrap EXCEPT ![moduleUid'] = "pending"]
  /\ UNCHANGED <<ngVars, injector, lazyModuleRef, injectorAssigns, cellVars, diVars, last, elemVars>>

\* downgradeModule(moduleFactoryOrBootstrapFn): registers the module, returns its name
DowngradeModule ==
  /\ moduleUid < MaxModules
  /\ moduleUid' = NextModuleUid(moduleUid)
  /\ returned' = Append(returned, LazyModuleName(moduleUid'))
  /\ UNCHANGED <<ngVars, lazyVars, cellVars, diVars, last, elemVars>>

\* $injector loads the module uid: its constant, its factories, its config block
LoadModule(uid) ==
  /\ phase = "config"
  /\ \E i \in 1..Len(returned) : returned[i] = LazyModuleName(uid)
  /\ \A i \in 1..Len(loaded) : loaded[i] # uid
  /\ loaded' = Append(loaded, uid)
  /\ LET c1 == (UPGRADE_APP_TYPE_KEY :> AppTypeLite) @@ constants
     IN constants' = (DOWNGRADED_MODULE_COUNT_KEY :> ConfigCount(c1)) @@ c1
  /\ factories' = ModuleFactories(uid) @@ factories
  /\ UNCHANGED <<phase, cache>>
  /\ UNCHANGED <<ngVars, moduleUid, returned, lazyVars, cellVars, last, elemVars>>

\* angular.bootstrap() has created $injector: every module is loaded
Ng1Ready ==
  /\ phase = "config"
  /\ phase' = "run"
  /\ UNCHANGED <<loaded, constants, factories, cache>>
  /\ UNCHANGED <<ngVars, moduleUid, returned, lazyVars, cellVars, last, elemVars>>

\* a call of validateInjectionKey on the running $injector
Validate(name, key) ==
  /\ phase = "run"
  /\ last' = Called("validate", name, key,
                   ValidateInjectionKey(constants, factories, name, key), NULL)
  /\ UNCHANGED <<ngVars, moduleUid, returned, lazyVars, cellVars, diVars, elemVars>>

(***************************************************************************)
(* The factories of a lazy module, run by $injector.get().                 *)
(***************************************************************************)
\* .factory(lazyInjectorKey, () => { if (!injector) throw ...; return injector; })
LazyInjectorFactory(inj) ==
  IF inj = NULL
    THEN [outcome |-> "throw", value |-> NULL]
    ELSE [outcome |-> "return", value |-> inj]

\* (mutant) a factory that leaves the cell alone
LazyModuleRefFactoryNoWrite(uid) ==
  /\ bootstrapCalls' = [bootstrapCalls EXCEPT ![uid] = @ + 1]
  /\ bootstrap' = [bootstrap EXCEPT ![uid] = "pending"]
  /\ lazyModuleRef' = [lazyModuleRef EXCEPT ![uid] = [injector |-> NULL, promise |-> "pending"]]
  /\ UNCHANGED <<injector, injectorAssigns, cellVars>>

\* .factory(lazyModuleRefKey, [$INJECTOR, ($injector) => {...}]): writes the cell,
\* invokes bootstrapFn(angular1Providers), chains the continuation on its promise
\* and returns `result`, whose promise is pending
LazyModuleRefFactory(uid) ==
  /\ tempInjectorRef' = SetTempInjectorRef(tempInjectorRef, Ng1Injector)
  /\ writes' = Append(writes, Ng1Injector)
  /\ bootstrapCalls' = [bootstrapCalls EXCEPT ![uid] = @ + 1]
  /\ bootstrap' = [bootstrap EXCEPT ![uid] = "pending"]
  /\ lazyModuleRef' = [lazyModuleRef EXCEPT ![uid] = [injector |-> NULL, promise |-> "pending"]]
  /\ UNCHANGED <<injector, injectorAssigns, cellRead, angularHasNg1>>

\* (mutant) result.injector = new NgAdapterInjector(ref.injector), `injector` left unset
AssignInjectorResultOnly(uid, inj, promise) ==
  /\ injector' = injector
  /\ injectorAssigns' = injectorAssigns
  /\ lazyModuleRef' = [lazyModuleRef EXCEPT ![uid] = [injector |-> inj, promise |-> promise]]

\* injector = result.injector = new NgAdapterInjector(ref.injector)
AssignInjector(uid, inj, promise) ==
  /\ injector' = [injector EXCEPT ![uid] = inj]
  /\ injectorAssigns' = [injectorAssigns EXCEPT ![uid] = @ + 1]
  /\ lazyModuleRef' = [lazyModuleRef EXCEPT ![uid] = [injector |-> inj, promise |-> promise]]

\* what the host application's own modules provide under a key
HostValue(key) == Obj(key[1], 0)

\* $injector.get(key): a cached instance, or the factory's result, cached when the
\* factory returns; a factory [dep, identity] first gets dep
GetCore(key) ==
  /\ phase = "run"
  /\ LET hit == key \in DOMAIN cache
         known == key \in DOMAIN factories
         fd == factories[key]
         target == IF fd.type = "identity" THEN fd.dep ELSE key
         td == factories[target]
         made == target \in DOMAIN cache
     IN
     \/ /\ hit
        /\ last' = Called("get", <<>>, key, "return", cache[key])
        /\ UNCHANGED <<cache, lazyVars, cellVars>>
     \/ /\ ~hit /\ ~known
        /\ last' = Called("get", <<>>, key, "unknown provider", NULL)
        /\ UNCHANGED <<cache, lazyVars, cellVars>>
     \/ /\ ~hit /\ known /\ made
        /\ cache' = (key :> cache[target]) @@ cache
        /\ last' = Called("get", <<>>, key, "return", cache[target])
        /\ UNCHANGED <<lazyVars, cellVars>>
     \/ /\ ~hit /\ known /\ ~made /\ td.type = "value"
        /\ cache' = (key :> HostValue(key)) @@ cache
        /\ last' = Called("get", <<>>, key, "return", HostValue(key))
        /\ UNCHANGED <<lazyVars, cellVars>>
     \/ /\ ~hit /\ known /\ ~made /\ td.type = "lazyInjector"
        /\ LET r == LazyInjectorFactory(injector[td.uid]) IN
           /\ cache' = IF r.outcome = "return"
                         THEN (key :> r.value) @@ (target :> r.value) @@ cache
                         ELSE cache
           /\ last' = Called("get", <<>>, key, r.outcome, r.value)
        /\ UNCHANGED <<lazyVars, cellVars>>
     \/ /\ ~hit /\ known /\ ~made /\ td.type = "lazyModuleRef"
        /\ LazyModuleRefFactory(td.uid)
        /\ cache' = (key :> LazyModuleRefObj(td.uid)) @@ (target :> LazyModuleRefObj(td.uid)) @@ cache
        /\ last' = Called("get", <<>>, key, "return", LazyModuleRefObj(td.uid))

\* a call of $injector.get(key) by the application
Get(key) ==
  /\ GetCore(key)
  /\ UNCHANGED <<ngVars, moduleUid, returned, phase, loaded, constants, factories, elemVars>>

\* bootstrapFn's promise resolves with the NgModuleRef and the continuation runs:
\*   ref => { injector = result.injector = new NgAdapterInjector(ref.injector);
\*            injector.get($INJECTOR); return injector; }
\* injector.get($INJECTOR) calls the provider injectorFactory, unless the Angular
\* injector that holds angular1Providers (the platform, which bootstraps may
\* share) has instantiated it before
BootstrapResolves(uid) ==
  /\ bootstrap[uid] = "pending"
  /\ bootstrap' = [bootstrap EXCEPT ![uid] = "resolved"]
  /\ \E provided \in {FALSE, angularHasNg1} :
       LET inj == NgAdapterInjector(ModuleInjector(uid))
           r == IF provided
                  THEN [outcome |-> "return", value |-> Ng1Injector, ref |-> tempInjectorRef]
                  ELSE InjectorFactory(tempInjectorRef)
       IN /\ AssignInjector(uid, inj, IF r.outcome = "return" THEN "fulfilled" ELSE "rejected")
          /\ tempInjectorRef' = r.ref
          /\ cellRead' = IF provided
                           THEN cellRead
                           ELSE Read(r.outcome, r.value, writes, cellRead.outcome)
          /\ writes' = IF ~provided /\ r.outcome = "return" THEN <<>> ELSE writes
          /\ angularHasNg1' = (angularHasNg1 \/ r.outcome = "return")
  /\ UNCHANGED bootstrapCalls
  /\ UNCHANGED <<ngVars, moduleUid, returned, diVars, last, elemVars>>

\* (mutant) a chain that swallows the rejection: the promise is fulfilled with undefined
BootstrapRejectsSwallowed(uid) ==
  /\ bootstrap[uid] = "pending"
  /\ bootstrap' = [bootstrap EXCEPT ![uid] = "rejected"]
  /\ lazyModuleRef' = [lazyModuleRef EXCEPT ![uid].promise = "fulfilled"]
  /\ UNCHANGED <<injector, bootstrapCalls, injectorAssigns>>
  /\ UNCHANGED <<ngVars, moduleUid, returned, cellVars, diVars, last, elemVars>>

\* bootstrapFn's promise rejects: the continuation never runs
BootstrapRejects(uid) ==
  /\ bootstrap[uid] = "pending"
  /\ bootstrap' = [bootstrap EXCEPT ![uid] = "rejected"]
  /\ lazyModuleRef' = [lazyModuleRef EXCEPT ![uid].promise = "rejected"]
  /\ UNCHANGED <<injector, bootstrapCalls, injectorAssigns>>
  /\ UNCHANGED <<ngVars, moduleUid, returned, cellVars, diVars, last, elemVars>>

(***************************************************************************)
(* ParentInjectorPromise (common/downgrade_component.js).                  *)
(***************************************************************************)
Elements == 1..MaxElements
Min(S) == CHOOSE x \in S : \A y \in S : x <= y

\* the ParentInjectorPromise object constructed for element e, as a value
PipObj(e) == Obj("ParentInjectorPromise", e)
\* facade.getInjector(): the injector of the component created on element e
ComponentInjector(e) == Obj("ComponentInjector", e)
\* the injectors a caller may pass to resolve()
ResolveInjectors == {ComponentInjector(e) : e \in Elements}

\* the fields of a ParentInjectorPromise: this.element (does it still reference
\* the element), this.injector, this.callbacks (the queued callbacks, by number),
\* and how many callbacks then() has been handed so far
PipRec(made, element, inj, callbacks, thens) ==
  [made |-> made, element |-> element, injector |-> inj, callbacks |-> callbacks,
   thens |-> thens]
\* no ParentInjectorPromise constructed
NoPip == PipRec(FALSE, FALSE, NULL, <<>>, 0)
\* constructor(element): this.element = element; this.callbacks = []
NewPip == PipRec(TRUE, TRUE, NULL, <<>>, 0)

\* one invocation of a callback: which, with what argument, from which method,
\* and what the element's data and this.element were at that moment
CbCall(cb, arg, by, dataThen, elementThen) ==
  [cb |-> cb, arg |-> arg, by |-> by, data |-> dataThen, element |-> elementThen]
\* a then() / resolve() call: on which element, the callback registered (0: none),
\* how it ended, and how many callbacks it invoked and left queued
PipCall(op, e, cb, outcome, invoked, queued) ==
  [op |-> op, e |-> e, cb |-> cb, outcome |-> outcome, invoked |-> invoked,
   queued |-> queued]
NoPipCall == PipCall("none", 0, 0, "none", 0, 0)

\* how often the promise of element e has invoked callback cb
Invocations(e, cb) == Cardinality({i \in DOMAIN cbCalls[e] : cbCalls[e][i].cb = cb})
\* the callbacks still queued on the promise of element e
Queued(e) == {pip[e].callbacks[i] : i \in DOMAIN pip[e].callbacks}
\* the invocations that resolve() made on the promise of element e, in order
FlushedBy(e) ==
  LET ByResolve(c) == c.by = "resolve" IN SelectSeq(cbCalls[e], ByResolve)

\* (mutant) a then() that invokes the callback whether or not resolve() has run
PipThenAlwaysCalls(p, e, dataNow, cb) ==
  [pip |-> [p EXCEPT !.thens = cb],
   calls |-> <<CbCall(cb, p.injector, "then", dataNow, p.element)>>]

\* (mutant) a then() that queues the callback whether or not resolve() has run
PipThenAlwaysQueues(p, e, dataNow, cb) ==
  [pip |-> [p EXCEPT !.callbacks = Append(@, cb), !.thens = cb], calls |-> <<>>]

\* then(callback): if (this.injector) callback(this.injector);
\*                 else this.callbacks.push(callback);
\* the promise afterwards and the invocations made
PipThen(p, e, dataNow, cb) ==
  IF p.injector # NULL
    THEN [pip |-> [p EXCEPT !.thens = cb],
          calls |-> <<CbCall(cb, p.injector, "then", dataNow, p.element)>>]
    ELSE [pip |-> [p EXCEPT !.callbacks = Append(@, cb), !.thens = cb],
          calls |-> <<>>]

\* callbacks.forEach(callback => callback(injector)), after the data swap and the release
Flush(callbacks, inj) ==
  [i \in 1..Len(callbacks) |-> CbCall(callbacks[i], inj, "resolve", inj, FALSE)]

\* (mutant) a resolve() that runs the queue from its end
PipResolveLifo(p, e, dataNow, inj) ==
  IF ~p.element
    THEN [outcome |-> "throw", pip |-> [p EXCEPT !.injector = inj],
          data |-> dataNow, calls |-> <<>>]
    ELSE [outcome |-> "return",
          pip |-> [p EXCEPT !.injector = inj, !.element = FALSE, !.callbacks = <<>>],
          data |-> inj,
          calls |-> [i \in 1..Len(p.callbacks) |->
                       CbCall(p.callbacks[Len(p.callbacks) + 1 - i], inj, "resolve", inj, FALSE)]]

\* (mutant) a resolve() that runs the queue before it swaps the data and
\* releases the element
PipResolveCallbacksFirst(p, e, dataNow, inj) ==
  IF ~p.element
    THEN [outcome |-> "throw", pip |-> [p EXCEPT !.injector = inj],
          data |-> dataNow, calls |-> <<>>]
    ELSE [outcome |-> "return",
          pip |-> [p EXCEPT !.injector = inj, !.element = FALSE, !.callbacks = <<>>],
          data |-> inj,
          calls |-> [i \in 1..Len(p.callbacks) |->
                       CbCall(p.callbacks[i], inj, "resolve", dataNow, TRUE)]]

\* (mutant) a resolve() that keeps its reference to the element
PipResolveNoRelease(p, e, dataNow, inj) ==
  [outcome |-> "return",
   pip |-> [p EXCEPT !.injector = inj, !.callbacks = <<>>],
   data |-> inj,
   calls |-> Flush(p.callbacks, inj)]

\* resolve(injector): this.injector = injector; this.element.data(key, injector);
\*   this.element = null; this.callbacks.forEach(...); this.callbacks.length = 0
\* this.element.data throws a TypeError once this.element is null
PipResolve(p, e, dataNow, inj) ==
  IF ~p.element
    THEN [outcome |-> "throw", pip |-> [p EXCEPT !.injector = inj],
          data |-> dataNow, calls |-> <<>>]
    ELSE [outcome |-> "return",
          pip |-> [p EXCEPT !.injector = inj, !.element = FALSE, !.callbacks = <<>>],
          data |-> inj,
          calls |-> Flush(p.callbacks, inj)]

\* callbacks.forEach(callback => callback(injector)) when the callbacks at the
\* queue positions in reentrant call then() on the same promise while they run:
\* forEach visits the positions the queue had when it started; the promise
\* afterwards and the invocations made, from position i on
RECURSIVE FlushReentrant(_, _, _, _, _, _)
FlushReentrant(p, e, queue, i, reentrant, inj) ==
  IF i > Len(queue)
    THEN [pip |-> p, calls |-> <<>>]
    ELSE LET r == IF i \in reentrant
                    THEN PipThen(p, e, inj, p.thens + 1)
                    ELSE [pip |-> p, calls |-> <<>>]
             rest == FlushReentrant(r.pip, e, queue, i + 1, reentrant, inj)
         IN [pip |-> rest.pip,
             calls |-> <<CbCall(queue[i], inj, "resolve", inj, FALSE)>> \o r.calls \o rest.calls]

\* (mutant) a resolve() that sets this.injector after it has run the queue
PipResolveReentrantLate(p, e, dataNow, inj, reentrant) ==
  IF ~p.element
    THEN [outcome |-> "throw", pip |-> [p EXCEPT !.injector = inj],
          data |-> dataNow, calls |-> <<>>]
    ELSE LET f == FlushReentrant([p EXCEPT !.element = FALSE], e, p.callbacks, 1, reentrant, inj)
         IN [outcome |-> "return",
             pip |-> [f.pip EXCEPT !.injector = inj, !.callbacks = <<>>],
             data |-> inj,
             calls |-> f.calls]

\* resolve(injector) with callbacks that call then(): this.injector is set and
\* the element released before forEach starts, this.callbacks.length = 0 after it
PipResolveReentrant(p, e, dataNow, inj, reentrant) ==
  IF ~p.element
    THEN [outcome |-> "throw", pip |-> [p EXCEPT !.injector = inj],
          data |-> dataNow, calls |-> <<>>]
    ELSE LET f == FlushReentrant([p EXCEPT !.injector = inj, !.element = FALSE],
                                 e, p.callbacks, 1, reentrant, inj)
         IN [outcome |-> "return",
             pip |-> [f.pip EXCEPT !.callbacks = <<>>],
             data |-> inj,
             calls |-> f.calls]

\* new ParentInjectorPromise(element), called directly
PipConstruct(e) ==
  /\ ~pip[e].made
  /\ pip' = [pip EXCEPT ![e] = NewPip]
  /\ data' = [data EXCEPT ![e] = PipObj(e)]
  /\ UNCHANGED <<cbCalls, lastPip>>
  /\ UNCHANGED <<ngVars, moduleUid, returned, lazyVars, cellVars, diVars, last, linkVars>>

\* promise.then(callback) with a callback not passed before
PipThenCall(e) ==
  /\ pip[e].made
  /\ pip[e].thens < MaxThens
  /\ LET cb == pip[e].thens + 1
         r == PipThen(pip[e], e, data[e], cb)
     IN /\ pip' = [pip EXCEPT ![e] = r.pip]
        /\ cbCalls' = [cbCalls EXCEPT ![e] = @ \o r.calls]
        /\ lastPip' = PipCall("then", e, cb, "return", Len(r.calls), Len(r.pip.callbacks))
  /\ UNCHANGED data
  /\ UNCHANGED <<ngVars, moduleUid, returned, lazyVars, cellVars, diVars, last, linkVars>>

\* promise.resolve(injector)
PipResolveCall(e, inj) ==
  /\ pip[e].made
  /\ LET r == PipResolve(pip[e], e, data[e], inj)
     IN /\ pip' = [pip EXCEPT ![e] = r.pip]
        /\ data' = [data EXCEPT ![e] = r.data]
        /\ cbCalls' = [cbCalls EXCEPT ![e] = @ \o r.calls]
        /\ lastPip' = PipCall("resolve", e, 0, r.outcome, Len(r.calls), Len(r.pip.callbacks))
  /\ UNCHANGED <<ngVars, moduleUid, returned, lazyVars, cellVars, diVars, last, linkVars>>

\* promise.resolve(injector) when the queued callbacks at the positions in
\* reentrant register one more callback each while resolve() runs them
PipResolveReentrantCall(e, inj, reentrant) ==
  /\ pip[e].made
  /\ reentrant \subseteq DOMAIN pip[e].callbacks
  /\ pip[e].thens + Cardinality(reentrant) <= MaxThens
  /\ LET r == PipResolveReentrant(pip[e], e, data[e], inj, reentrant)
     IN /\ pip' = [pip EXCEPT ![e] = r.pip]
        /\ data' = [data EXCEPT ![e] = r.data]
        /\ cbCalls' = [cbCalls EXCEPT ![e] = @ \o r.calls]
        /\ lastPip' = PipCall("resolve", e, 0, r.outcome, Len(r.calls), Len(r.pip.callbacks))
  /\ UNCHANGED <<ngVars, moduleUid, returned, lazyVars, cellVars, diVars, last, linkVars>>

(***************************************************************************)
(* downgradeComponent(info): the link function of the directive it returns.*)
(***************************************************************************)
\* the injector an UpgradeModule application keeps for its root and in its
\* LAZY_MODULE_REF record
HostInjector == Obj("HostInjector", 0)
\* lazyModuleRef.promise of the lazy module uid
ModulePromise(uid) == Obj("Promise", uid)

\* (mutant) an isThenable that takes every injector for a promise
IsThenableAlways(obj) == TRUE

\* (mutant) an isThenable that takes no value for a promise
IsThenableNever(obj) == FALSE

\* isThenable(obj): isFunction(obj.then)
IsThenable(obj) == obj.kind \in {"Promise", "ParentInjectorPromise"}

\* (mutant) lazyModuleRef.promise || lazyModuleRef.injector
ModuleInjectorOfPromiseFirst(ref, refs) ==
  IF ref.kind = "LazyModuleRef" THEN ModulePromise(ref.of) ELSE HostInjector

\* lazyModuleRef.injector || lazyModuleRef.promise, for the record $injector.get returned
ModuleInjectorOf(ref, refs) ==
  IF ref.kind = "LazyModuleRef"
    THEN IF refs[ref.of].injector # NULL
           THEN refs[ref.of].injector
           ELSE ModulePromise(ref.of)
    ELSE HostInjector

\* zone: how downgradeFn called doDowngrade ("unwrapped": directly, with no look
\* at the zone; "direct": cb() inside the Angular zone; "run": ngZone.run(cb));
\* needsNgZone: the first argument setupInputs was given
\* one invocation of link: its inputs (the nearest downgraded ancestor element or
\* 0, required[0], info.downgradedModule), what resolveComponentFactory returned
\* once doDowngrade has asked, its locals and how far it has come
LinkRec(state, anc, parent, module, name, hasFactory, path, ranAsync, subs, cbs, pInj, mInj, error) ==
  [zone |-> "none", needsNgZone |-> NULL, state |-> state, anc |-> anc, parentInjector |-> parent, moduleInjector |-> module,
   downgradedModule |-> name, hasFactory |-> hasFactory, path |-> path,
   ranAsync |-> ranAsync, subs |-> subs, cbs |-> cbs,
   injector |-> pInj, resolver |-> mInj, error |-> error]

\* (mutant) let ranAsync = true
RanAsyncInitTrue == TRUE

\* let ranAsync = false
RanAsyncInit == FALSE

NoLink == LinkRec("none", 0, NULL, NULL, <<>>, FALSE, "none", RanAsyncInit, 0, {}, NULL, NULL, "none")

\* isNgUpgradeLite and hasMultipleDowngradedModules of the directive factory
IsNgUpgradeLite == GetUpgradeAppType(constants) = AppTypeLite
HasMultipleDowngradedModules == IsNgUpgradeLite /\ GetDowngradedModuleCount(constants) > 1

\* (mutant) a link that always looks the module up
NeedsLookupAlways(parent) == TRUE

\* (mutant) a link that looks the module up only for an element without parent injector
NeedsLookupNoParentOnly(parent) == parent = NULL

\* if (!parentInjector || hasMultipleDowngradedModules)
NeedsLookup(parent) == parent = NULL \/ HasMultipleDowngradedModules

\* the values required[0] can have for a link on element e whose nearest
\* downgraded ancestor is anc: the data of that ancestor, which is being created
\* (the link runs inside its doDowngrade) or has been created; without such an
\* ancestor nothing, or the root injector of an UpgradeModule application
ParentInjectors(e, anc) ==
  IF anc = 0
    THEN IF running = 0
           THEN {NULL} \cup (IF GetUpgradeAppType(constants) \in {AppTypeDynamic, AppTypeStatic}
                               THEN {HostInjector} ELSE {})
           ELSE {}
    ELSE IF anc # e /\ data[anc] # NULL /\ running \in {0, anc}
              /\ (running = anc <=> data[anc] = PipObj(anc))
           THEN {data[anc]}
           ELSE {}

\* (mutant) a wrapCallback that enters the zone whatever the mode and the current zone
ZoneEntryAlwaysRun(isNgUpgradeLite, inAngularZone) == "run"

\* downgradeFn = !isNgUpgradeLite ? doDowngrade : ... wrapCallback(() => doDowngrade(...))()
\* wrapCallback = !isNgUpgradeLite ? cb => cb :
\*                cb => () => NgZone.isInAngularZone() ? cb() : ngZone.run(cb)
ZoneEntry(isNgUpgradeLite, inAngularZone) ==
  IF ~isNgUpgradeLite THEN "unwrapped"
  ELSE IF inAngularZone THEN "direct" ELSE "run"

\* what NgZone.isInAngularZone() returns when downgradeFn is called for a link:
\* a link made from the doDowngrade of an ancestor in lite mode (it was given
\* the ancestor's unresolved promise) was called in the zone, and so is its
\* continuation; a link made by $compile on its own is outside
ZoneStates(rec) ==
  {IsNgUpgradeLite /\ rec.parentInjector # NULL
                  /\ rec.parentInjector.kind = "ParentInjectorPromise"}

\* (mutant) a setupInputs that is always told to wrap
NeedsNgZoneAlways(isNgUpgradeLite) == TRUE

\* facade.setupInputs(isNgUpgradeLite, info.propagateDigest): the first argument
NeedsNgZone(isNgUpgradeLite) == isNgUpgradeLite

\* (mutant) a doDowngrade without the test of componentFactory
DoDowngradeNoFactoryTest(e, rec, events, hasFactory) ==
  /\ link' = [link EXCEPT ![e] = [rec EXCEPT !.state = "creating", !.hasFactory = hasFactory]]
  /\ log' = [log EXCEPT ![e] = @ \o events \o
                <<"resolveComponentFactory", "new ParentInjectorPromise", "compileContents">>]
  /\ pip' = [pip EXCEPT ![e] = NewPip]
  /\ data' = [data EXCEPT ![e] = PipObj(e)]
  /\ running' = e
  /\ UNCHANGED <<cbCalls, lastPip>>

\* doDowngrade(injector, moduleInjector) up to the point where the contents are
\* compiled and linked: resolveComponentFactory, new ParentInjectorPromise(element),
\* new DowngradeComponentAdapter(...), facade.compileContents()
DoDowngrade(e, rec, events, hasFactory) ==
  \E inAngularZone \in ZoneStates(rec) :
    LET zone == ZoneEntry(IsNgUpgradeLite, inAngularZone)
        zrec == [rec EXCEPT !.zone = zone]
        zevents == events \o (IF zone = "run" THEN <<"ngZone.run">> ELSE <<>>)
    IN IF ~hasFactory
         THEN /\ link' = [link EXCEPT ![e] =
                            [zrec EXCEPT !.state = IF rec.path = "sync" THEN "threw" ELSE "failed",
                                         !.error = "Expecting ComponentFactory"]]
              /\ log' = [log EXCEPT ![e] = @ \o zevents \o <<"resolveComponentFactory", "throw">>]
              /\ UNCHANGED <<pipVars, running>>
         ELSE /\ link' = [link EXCEPT ![e] = [zrec EXCEPT !.state = "creating", !.hasFactory = TRUE]]
              /\ log' = [log EXCEPT ![e] = @ \o zevents \o
                            <<"resolveComponentFactory", "new ParentInjectorPromise", "compileContents">>]
              /\ pip' = [pip EXCEPT ![e] = NewPip]
              /\ data' = [data EXCEPT ![e] = PipObj(e)]
              /\ running' = e
              /\ UNCHANGED <<cbCalls, lastPip>>

\* const finalParentInjector = parentInjector || moduleInjector
FinalParentInjector(rec) ==
  IF rec.parentInjector # NULL THEN rec.parentInjector ELSE rec.moduleInjector
\* (mutant) const finalModuleInjector = parentInjector || moduleInjector
FinalModuleInjectorParentFirst(rec) ==
  IF rec.parentInjector # NULL THEN rec.parentInjector ELSE rec.moduleInjector

\* const finalModuleInjector = moduleInjector || parentInjector
FinalModuleInjector(rec) ==
  IF rec.moduleInjector # NULL THEN rec.moduleInjector ELSE rec.parentInjector

\* (mutant) a link that calls downgradeFn at once even when it has handed the
\* injectors to Promise.all
LinkProceedsBoth(e, rec, events, hasFactory) ==
  LET finalParentInjector == FinalParentInjector(rec)
      finalModuleInjector == FinalModuleInjector(rec)
      joined == IsThenable(finalParentInjector) \/ IsThenable(finalModuleInjector)
  IN DoDowngrade(e, [rec EXCEPT !.path = IF joined THEN "async" ELSE "sync",
                                !.injector = finalParentInjector,
                                !.resolver = finalModuleInjector],
                 events \o (IF joined THEN <<"Promise.all">> ELSE <<>>), hasFactory)

\* the rest of link once moduleInjector is known: the two final injectors, then
\* downgradeFn called at once or left to Promise.all([...]).then(...); ranAsync = true
LinkProceeds(e, rec, events, hasFactory) ==
  LET finalParentInjector == FinalParentInjector(rec)
      finalModuleInjector == FinalModuleInjector(rec)
      pips == Cardinality({i \in 1..2 :
                <<finalParentInjector, finalModuleInjector>>[i].kind = "ParentInjectorPromise"})
  IN IF IsThenable(finalParentInjector) \/ IsThenable(finalModuleInjector)
       THEN /\ link' = [link EXCEPT ![e] =
                          [rec EXCEPT !.state = "waiting", !.path = "async", !.subs = pips,
                                      !.injector = finalParentInjector,
                                      !.resolver = finalModuleInjector,
                                      !.ranAsync = TRUE]]
            /\ log' = [log EXCEPT ![e] = @ \o events \o <<"Promise.all", "return">>]
            /\ UNCHANGED <<pipVars, running>>
       ELSE DoDowngrade(e, [rec EXCEPT !.path = "sync",
                                       !.injector = finalParentInjector,
                                       !.resolver = finalModuleInjector],
                        events, hasFactory)

\* (mutant) a link that fetches the lazy-module reference before it validates the key
LinkLookupFirst(e, anc, parent, name, hasFactory) ==
  /\ phase = "run"
  /\ link[e].state = "none"
  /\ parent \in ParentInjectors(e, anc)
  /\ LET lazyModuleRefKey == LazyModuleRefKey(name)
         rec == [NoLink EXCEPT !.anc = anc, !.parentInjector = parent,
                               !.downgradedModule = name]
         valid == ValidateInjectionKey(constants, factories, name, lazyModuleRefKey)
     IN
     \/ /\ NeedsLookup(parent)
        /\ valid # "ok"
        /\ GetCore(lazyModuleRefKey)
        /\ link' = [link EXCEPT ![e] = [rec EXCEPT !.state = "threw", !.error = valid]]
        /\ log' = [log EXCEPT ![e] = <<"link", "validateInjectionKey", "throw">>]
        /\ UNCHANGED <<pipVars, running>>
     \/ /\ NeedsLookup(parent)
        /\ valid = "ok"
        /\ GetCore(lazyModuleRefKey)
        /\ IF last'.outcome = "return"
             THEN LinkProceeds(e, [rec EXCEPT !.moduleInjector =
                                      ModuleInjectorOf(last'.value, lazyModuleRef')],
                               <<"link", "validateInjectionKey", "$injector.get">>,
                               hasFactory)
             ELSE /\ link' = [link EXCEPT ![e] =
                                [rec EXCEPT !.state = "threw", !.error = last'.outcome]]
                  /\ log' = [log EXCEPT ![e] =
                                <<"link", "validateInjectionKey", "$injector.get", "throw">>]
                  /\ UNCHANGED <<pipVars, running>>
     \/ /\ ~NeedsLookup(parent)
        /\ UNCHANGED <<cache, lazyVars, cellVars, last>>
        /\ LinkProceeds(e, rec, <<"link">>, hasFactory)
  /\ UNCHANGED <<ngVars, moduleUid, returned, phase, loaded, constants, factories>>

\* link(scope, element, attrs, required) on element e, up to its return or, when
\* downgradeFn is called at once, up to the linking of the element's contents
Link(e, anc, parent, name, hasFactory) ==
  /\ phase = "run"
  /\ link[e].state = "none"
  /\ parent \in ParentInjectors(e, anc)
  /\ LET lazyModuleRefKey == LazyModuleRefKey(name)
         rec == [NoLink EXCEPT !.anc = anc, !.parentInjector = parent,
                               !.downgradedModule = name]
         valid == ValidateInjectionKey(constants, factories, name, lazyModuleRefKey)
     IN
     \/ /\ NeedsLookup(parent)
        /\ valid # "ok"
        /\ link' = [link EXCEPT ![e] = [rec EXCEPT !.state = "threw", !.error = valid]]
        /\ log' = [log EXCEPT ![e] = <<"link", "validateInjectionKey", "throw">>]
        /\ UNCHANGED <<cache, lazyVars, cellVars, last, pipVars, running>>
     \/ /\ NeedsLookup(parent)
        /\ valid = "ok"
        /\ GetCore(lazyModuleRefKey)
        /\ IF last'.outcome = "return"
             THEN LinkProceeds(e, [rec EXCEPT !.moduleInjector =
                                      ModuleInjectorOf(last'.value, lazyModuleRef')],
                               <<"link", "validateInjectionKey", "$injector.get">>,
                               hasFactory)
             ELSE /\ link' = [link EXCEPT ![e] =
                                [rec EXCEPT !.state = "threw", !.error = last'.outcome]]
                  /\ log' = [log EXCEPT ![e] =
                                <<"link", "validateInjectionKey", "$injector.get", "throw">>]
                  /\ UNCHANGED <<pipVars, running>>
     \/ /\ ~NeedsLookup(parent)
        /\ UNCHANGED <<cache, lazyVars, cellVars, last>>
        /\ LinkProceeds(e, rec, <<"link">>, hasFactory)
  /\ UNCHANGED <<ngVars, moduleUid, returned, phase, loaded, constants, factories>>

\* Promise.all resolves a ParentInjectorPromise it was given by calling its
\* then(), in a job of its own, once for each place it has in the array; the
\* jobs are queued one after the other and nothing runs between them
LinkSubscribe(e) ==
  /\ running = 0
  /\ link[e].state = "waiting"
  /\ link[e].subs > 0
  /\ LET anc == link[e].anc
         cb == pip[anc].thens + 1
         r1 == PipThen(pip[anc], anc, data[anc], cb)
         r2 == PipThen(r1.pip, anc, data[anc], cb + 1)
         twice == link[e].subs = 2
     IN /\ pip' = [pip EXCEPT ![anc] = IF twice THEN r2.pip ELSE r1.pip]
        /\ cbCalls' = [cbCalls EXCEPT ![anc] = @ \o r1.calls \o (IF twice THEN r2.calls ELSE <<>>)]
        /\ link' = [link EXCEPT ![e].subs = 0,
                                ![e].cbs = IF twice THEN {cb, cb + 1} ELSE {cb}]
        /\ log' = [log EXCEPT ![e] = @ \o (IF twice THEN <<"then", "then">> ELSE <<"then">>)]
  /\ UNCHANGED <<data, lastPip, running>>
  /\ UNCHANGED <<ngVars, moduleUid, returned, lazyVars, cellVars, diVars, last>>

\* (mutant) a continuation that is given the array entries themselves
SettledUnawaited(e, obj) ==
  CASE obj.kind = "Promise" -> injector[obj.of]
    [] OTHER -> obj

\* what a value that link handed to Promise.all settles to
Settled(e, obj) ==
  CASE obj.kind = "Promise" -> injector[obj.of]
    [] obj.kind = "ParentInjectorPromise" ->
         LET i == CHOOSE i \in DOMAIN cbCalls[obj.of] : cbCalls[obj.of][i].cb \in link[e].cbs
         IN cbCalls[obj.of][i].arg
    [] OTHER -> obj

\* (mutant) a join that does not wait for the module's promise
AllFulfilledParentOnly(e) ==
  /\ link[e].subs = 0
  /\ \A cb \in link[e].cbs : Invocations(link[e].anc, cb) > 0

\* has everything that the link on element e handed to Promise.all been fulfilled
AllFulfilled(e) ==
  /\ link[e].subs = 0
  /\ \A cb \in link[e].cbs : Invocations(link[e].anc, cb) > 0
  /\ \A obj \in {link[e].injector, link[e].resolver} :
       obj.kind = "Promise" => lazyModuleRef[obj.of].promise = "fulfilled"

\* .then(([pInjector, mInjector]) => downgradeFn(pInjector, mInjector)), up to
\* the linking of the element's contents
DowngradeAsync(e, hasFactory) ==
  /\ running = 0
  /\ link[e].state = "waiting"
  /\ AllFulfilled(e)
  /\ DoDowngrade(e, [link[e] EXCEPT !.injector = Settled(e, link[e].injector),
                                    !.resolver = Settled(e, link[e].resolver)],
                 <<"downgradeFn">>, hasFactory)
  /\ UNCHANGED <<ngVars, moduleUid, returned, lazyVars, cellVars, diVars, last>>

\* the promise of Promise.all rejects with the module's promise: the
\* continuation that calls downgradeFn is skipped
JoinRejects(e) ==
  /\ running = 0
  /\ link[e].state = "waiting"
  /\ \E obj \in {link[e].injector, link[e].resolver} :
       obj.kind = "Promise" /\ lazyModuleRef[obj.of].promise = "rejected"
  /\ link' = [link EXCEPT ![e].state = "rejected", ![e].error = "bootstrap rejected"]
  /\ log' = [log EXCEPT ![e] = Append(@, "rejected")]
  /\ UNCHANGED <<pipVars, running>>
  /\ UNCHANGED <<ngVars, moduleUid, returned, lazyVars, cellVars, diVars, last>>

\* (mutant) a doDowngrade that calls scope.$evalAsync whatever ranAsync is
EvalAsyncAlways(ranAsync) == <<"$evalAsync">>

\* if (ranAsync) { scope.$evalAsync(() => {}); }
EvalAsync(ranAsync) == IF ranAsync THEN <<"$evalAsync">> ELSE <<>>

\* (mutant) a doDowngrade that resolves the promise before it creates the component
CompletionStepsResolveFirst ==
  <<"getInjector", "resolve", "createComponent", "setupInputs", "setupOutputs",
    "registerCleanup">>

\* facade.createComponent(projectableNodes); facade.setupInputs(...);
\* facade.setupOutputs(); facade.registerCleanup();
\* injectorPromise.resolve(facade.getInjector())
CompletionSteps ==
  <<"createComponent", "setupInputs", "setupOutputs", "registerCleanup",
    "getInjector", "resolve">>

\* the rest of doDowngrade, after the element's contents have been linked:
\* createComponent, setupInputs, setupOutputs, registerCleanup,
\* injectorPromise.resolve(facade.getInjector()), $evalAsync if ranAsync; on the
\* synchronous path link then sets ranAsync and returns
DoDowngradeCompletes(e) ==
  /\ running = e
  /\ link[e].state = "creating"
  /\ LET r == PipResolve(pip[e], e, data[e], ComponentInjector(e))
     IN /\ pip' = [pip EXCEPT ![e] = r.pip]
        /\ data' = [data EXCEPT ![e] = r.data]
        /\ cbCalls' = [cbCalls EXCEPT ![e] = @ \o r.calls]
  /\ log' = [log EXCEPT ![e] = @ \o CompletionSteps
                \o EvalAsync(link[e].ranAsync)
                \o (IF link[e].path = "sync" THEN <<"return">> ELSE <<>>)]
  /\ link' = [link EXCEPT ![e].state = "done", ![e].ranAsync = TRUE,
                          ![e].needsNgZone = NeedsNgZone(IsNgUpgradeLite)]
  /\ running' = 0
  /\ UNCHANGED <<ngVars, moduleUid, returned, lazyVars, cellVars, diVars, last, lastPip>>

\* the calls of doDowngrade after compileContents that can throw before
\* injectorPromise.resolve is reached
ThrowingSteps == {"compileContents", "createComponent", "setupInputs", "setupOutputs",
                  "registerCleanup", "getInjector"}

\* the steps of the rest of doDowngrade up to and including the call op
StepsUpTo(op) ==
  IF op = "compileContents" THEN <<>>
  ELSE SubSeq(CompletionSteps, 1,
              CHOOSE i \in DOMAIN CompletionSteps : CompletionSteps[i] = op)

\* (mutant) a doDowngrade that resolves the promise in a finally block
DoDowngradeThrowsResolved(e, op) ==
  /\ running = e
  /\ link[e].state = "creating"
  /\ op \in ThrowingSteps
  /\ LET r == PipResolve(pip[e], e, data[e], ComponentInjector(e))
     IN /\ pip' = [pip EXCEPT ![e] = r.pip]
        /\ data' = [data EXCEPT ![e] = r.data]
        /\ cbCalls' = [cbCalls EXCEPT ![e] = @ \o r.calls]
  /\ log' = [log EXCEPT ![e] = @ \o StepsUpTo(op) \o <<"throw">>]
  /\ link' = [link EXCEPT ![e].state = IF link[e].path = "sync" THEN "threw" ELSE "failed",
                          ![e].error = op]
  /\ running' = 0
  /\ UNCHANGED <<ngVars, moduleUid, returned, lazyVars, cellVars, diVars, last, lastPip>>

\* the rest of doDowngrade when the adapter call op throws: the exception leaves
\* doDowngrade (and link, on the synchronous path; the Promise.all continuation
\* otherwise) before injectorPromise.resolve and $evalAsync are reached
DoDowngradeThrows(e, op) ==
  /\ running = e
  /\ link[e].state = "creating"
  /\ op \in ThrowingSteps
  /\ log' = [log EXCEPT ![e] = @ \o StepsUpTo(op) \o <<"throw">>]
  /\ link' = [link EXCEPT ![e].state = IF link[e].path = "sync" THEN "threw" ELSE "failed",
                          ![e].error = op]
  /\ running' = 0
  /\ UNCHANGED <<ngVars, moduleUid, returned, lazyVars, cellVars, diVars, last, pipVars>>

(***************************************************************************)
(* The applications the lazy modules are loaded into: what the rest of the *)
(* host application has recorded in $injector before any lazy module.      *)
(***************************************************************************)
HostApps ==
  { [constants |-> <<>>, factories |-> <<>>] } \cup
  { [constants |-> (UPGRADE_APP_TYPE_KEY :> t),
     factories |-> (<<LAZY_MODULE_REF>> :> [type |-> "value", dep |-> <<>>, uid |-> 0])
                @@ (<<INJECTOR_KEY>> :> [type |-> "value", dep |-> <<>>, uid |-> 0])]
    : t \in {AppTypeDynamic, AppTypeStatic} }

(***************************************************************************)
(* The AngularJS global (common/angular1.js).                              *)
(***************************************************************************)
\* how many AngularJS globals a caller may set
MaxGlobals == 2

\* the object `angular` starts as when window has no angular: every function of
\* it is noNg, its version is undefined
NoNgStub == Obj("noNg", 0)
\* the AngularJS globals a caller may pass to setAngularJSGlobal
Globals == {Obj("angular", n) : n \in 1..MaxGlobals}
\* ng.version
VersionOf(ng) == IF ng \in Globals THEN Obj("version", ng.of) ELSE NULL

\* the exported wrappers: bootstrap, module, element, element.cleanData,
\* resumeBootstrap, getTestability
Wrappers == {"bootstrap", "module", "element", "element.cleanData", "resumeBootstrap",
             "getTestability"}
\* the exported getters
Getters == {"getAngularJSGlobal", "getAngularLib"}

\* a call of a wrapper or getter: which, how it ended, the error thrown, and the
\* object the call was made on or that was returned
NgCall(f, outcome, error, by) == [f |-> f, outcome |-> outcome, error |-> error, by |-> by]
NoNgCall == NgCall("none", "none", "none", NULL)

\* (mutant) wrappers that are the functions `angular` had when the file was loaded
WrapperEarlyBound(current, f) ==
  NgCall(f, "throw", "AngularJS v1.x is not loaded!", NoNgStub)

\* (...args) => angular.f(...args): reads `angular` when it is called; noNg()
\* throws 'AngularJS v1.x is not loaded!', a property read on a value that is
\* not an object throws a TypeError
Wrapper(current, f) ==
  IF current = NoNgStub THEN NgCall(f, "throw", "AngularJS v1.x is not loaded!", current)
  ELSE IF current \in Globals THEN NgCall(f, "return", "none", current)
  ELSE NgCall(f, "throw", "TypeError", current)

\* setAngularJSGlobal(ng): angular = ng; version = ng && ng.version
\* (setAngularLib(ng) calls it)
SetAngularJSGlobal(ng) ==
  /\ angular' = ng
  /\ version' = VersionOf(ng)
  /\ UNCHANGED ngCall
  /\ UNCHANGED <<moduleUid, returned, lazyVars, cellVars, diVars, last, elemVars>>

\* getAngularJSGlobal(): return angular (getAngularLib() calls it)
GetAngularJSGlobal(f) ==
  /\ f \in Getters
  /\ ngCall' = NgCall(f, "return", "none", angular)
  /\ UNCHANGED <<angular, version>>
  /\ UNCHANGED <<moduleUid, returned, lazyVars, cellVars, diVars, last, elemVars>>

\* a call of one of the exported wrappers
WrapperCall(f) ==
  /\ f \in Wrappers
  /\ ngCall' = Wrapper(angular, f)
  /\ UNCHANGED <<angular, version>>
  /\ UNCHANGED <<moduleUid, returned, lazyVars, cellVars, diVars, last, elemVars>>

Init ==
  /\ moduleUid = 0
  /\ returned = <<>>
  /\ injector = [u \in Uids |-> NULL]
  /\ lazyModuleRef = [u \in Uids |-> [injector |-> NULL, promise |-> "none"]]
  /\ bootstrap = [u \in Uids |-> "not started"]
  /\ bootstrapCalls = [u \in Uids |-> 0]
  /\ injectorAssigns = [u \in Uids |-> 0]
  /\ tempInjectorRef = NULL
  /\ writes = <<>>
  /\ cellRead = NoRead
  /\ angularHasNg1 = FALSE
  /\ phase = "config"
  /\ loaded = <<>>
  /\ \E app \in HostApps : constants = app.constants /\ factories = app.factories
  /\ cache = <<>>
  /\ last = NoCall
  /\ pip = [e \in Elements |-> NoPip]
  /\ data = [e \in Elements |-> NULL]
  /\ cbCalls = [e \in Elements |-> <<>>]
  /\ lastPip = NoPipCall
  /\ link = [e \in Elements |-> NoLink]
  /\ log = [e \in Elements |-> <<>>]
  /\ running = 0
  /\ angular = NoNgStub
  /\ version = NULL
  /\ ngCall = NoNgCall

(***************************************************************************)
(* Properties.                                                             *)
(***************************************************************************)
\* the modules that $injector has loaded
Loaded == {loaded[i] : i \in 1..Len(loaded)}
\* the module whose factories INJECTOR_KEY and LAZY_MODULE_REF resolve to
LastLoaded == loaded[Len(loaded)]
\* what $injector.get(lazyInjectorKey) of a loaded module does in this state
ResolveInjectorKey(uid) ==
  LET key == LazyInjectorKey(LazyModuleName(uid)) IN
  IF key \in DOMAIN cache
    THEN [outcome |-> "return", value |-> cache[key]]
    ELSE LazyInjectorFactory(injector[uid])

\* C1: the names that N calls of downgradeModule return are pairwise distinct, and
\* the numeric suffix of each is strictly greater than that of every earlier one:
\* the counter is never reset or reused (it counts the calls made).
C1_NamesStrictlyOrdered ==
  /\ moduleUid = Len(returned)
  /\ \A i, j \in 1..Len(returned) :
       i < j => /\ returned[i] # returned[j]
                /\ NameSuffix(returned[i]) < NameSuffix(returned[j])
C1_Witness ==
  /\ Len(returned) >= 2
  /\ NameSuffix(returned[1]) < NameSuffix(returned[2])

\* C2: the Downgraded-Module Count read from $injector equals the number of lazy
\* modules whose configuration block has run (one increment per module, applied
\* when it is loaded); once all N registered modules are loaded it equals N.
C2_CountIsLoadedModules ==
  /\ GetDowngradedModuleCount(constants) = Len(loaded)
  /\ (DOWNGRADED_MODULE_COUNT_KEY \in DOMAIN constants) <=> (loaded # <<>>)
  /\ (\A i \in 1..Len(returned) : NameSuffix(returned[i]) \in Loaded)
        => GetDowngradedModuleCount(constants) = Len(returned)
C2_Witness ==
  /\ phase = "run"
  /\ Len(returned) = 2
  /\ \A i \in 1..Len(returned) : NameSuffix(returned[i]) \in Loaded
  /\ GetDowngradedModuleCount(constants) = 2

\* C3: injectorFactory throws when the cell was never written, and when it was
\* read successfully and not written since; in both cases the cell stays empty.
C3_EmptyReadThrows ==
  (cellRead.outcome # "none" /\ cellRead.writes = <<>>)
     => /\ cellRead.outcome = "throw"
        /\ writes = <<>> => tempInjectorRef = NULL
C3_Witness ==
  /\ cellRead.outcome = "throw"
  /\ cellRead.prev = "return"
  /\ cellRead.writes = <<>>
  /\ tempInjectorRef = NULL

\* C4: after any sequence of setTempInjectorRef writes, one injectorFactory read
\* returns the value of the most recent write, and the cell is empty right after it.
C4_ReadReturnsLatestWrite ==
  (cellRead.outcome # "none" /\ cellRead.writes # <<>>)
     => /\ cellRead.outcome = "return"
        /\ cellRead.value = cellRead.writes[Len(cellRead.writes)]
        /\ writes = <<>> => tempInjectorRef = NULL
C4_Witness ==
  /\ cellRead.outcome = "return"
  /\ Len(cellRead.writes) >= 2
  /\ cellRead.writes[1] # cellRead.writes[Len(cellRead.writes)]
  /\ cellRead.value = cellRead.writes[Len(cellRead.writes)]
  /\ writes = <<>>
  /\ tempInjectorRef = NULL

\* C5: in Dynamic or Static mode validateInjectionKey throws ('downgradedModule'
\* unexpectedly specified) exactly when the module name is not empty, whether or
\* not the lookup key is provided.
C5_LegacyModes ==
  (last.op = "validate" /\ GetUpgradeAppType(constants) \in {AppTypeDynamic, AppTypeStatic})
     => /\ last.name # <<>> => last.outcome = "unexpectedly specified"
        /\ last.name = <<>> => last.outcome = "ok"
C5_Witness ==
  /\ last.op = "validate"
  /\ GetUpgradeAppType(constants) = AppTypeStatic
  /\ last.name = <<>>
  /\ Has(constants, factories, last.key)
  /\ last.outcome = "ok"

\* C6: in Lite mode with two or more lazy modules loaded, validateInjectionKey
\* throws ('downgradedModule' not specified) for an empty module name; for a
\* module name it returns when $injector has the lookup key, as it has the
\* lazy-module-reference key of every loaded lazy module, and throws (unable to
\* find) when it has not.
C6_LiteMultiModule ==
  (last.op = "validate" /\ GetUpgradeAppType(constants) = AppTypeLite
                        /\ GetDowngradedModuleCount(constants) >= 2)
     => /\ last.name = <<>> => last.outcome = "not specified"
        /\ (last.name # <<>> /\ Has(constants, factories, last.key)) => last.outcome = "ok"
        /\ (last.name # <<>> /\ ~Has(constants, factories, last.key))
              => last.outcome = "unable to find"
        /\ (last.name # <<>> /\ last.key = LazyModuleRefKey(last.name))
              => (last.outcome = "ok" <=> NameSuffix(last.name) \in Loaded)
C6_Witness ==
  /\ last.op = "validate"
  /\ GetUpgradeAppType(constants) = AppTypeLite
  /\ GetDowngradedModuleCount(constants) = 2
  /\ last.name = <<>>
  /\ last.key = LazyModuleRefKey(last.name)
  /\ last.outcome = "not specified"

\* C7: while $injector holds no Upgrade Application Mode, validateInjectionKey
\* throws (not a valid application) for every module name and every lookup key.
C7_ModeNone ==
  (phase = "run" /\ UPGRADE_APP_TYPE_KEY \notin DOMAIN constants)
     => /\ GetUpgradeAppType(constants) = AppTypeNone
        /\ \A name \in Names, key \in Keys :
             ValidateInjectionKey(constants, factories, name, key) = "not a valid application"
        /\ last.op = "validate" => last.outcome = "not a valid application"
C7_Witness ==
  /\ UPGRADE_APP_TYPE_KEY \notin DOMAIN constants
  /\ last.op = "validate"
  /\ last.name # <<>>
  /\ last.outcome = "not a valid application"

\* C8: the bootstrap function of a lazy module is not invoked by downgradeModule
\* nor while $injector loads the module: whenever it has been invoked, $injector
\* is running and has resolved that module's lazy-module-reference key.
C8_BootstrapDeferred ==
  /\ phase = "config" => \A uid \in Uids : bootstrapCalls[uid] = 0
  /\ \A uid \in Uids :
       bootstrapCalls[uid] > 0
          => /\ uid \in Loaded
             /\ LazyModuleRefKey(LazyModuleName(uid)) \in DOMAIN cache
             /\ cache[LazyModuleRefKey(LazyModuleName(uid))] = LazyModuleRefObj(uid)
C8_Witness ==
  /\ phase = "run"
  /\ Loaded = {1, 2}
  /\ bootstrapCalls[1] = 1
  /\ bootstrapCalls[2] = 0
  /\ last.op = "get"
  /\ last.value = LazyModuleRefObj(1)

\* C9: for each lazy module the bootstrap function is invoked at most once and the
\* module's injector is assigned at most once; every lookup of the module's
\* injector, under its own key or under INJECTOR_KEY, yields that injector, and
\* every lookup of its lazy-module-reference yields the one record that holds it.
C9_BootstrappedOnce ==
  \A uid \in Uids :
    LET name == LazyModuleName(uid)
        mine == \/ last.key \in {LazyInjectorKey(name), LazyModuleRefKey(name)}
                \/ /\ last.key \in {<<INJECTOR_KEY>>, <<LAZY_MODULE_REF>>}
                   /\ loaded # <<>>
                   /\ LastLoaded = uid
    IN /\ bootstrapCalls[uid] <= 1
       /\ injectorAssigns[uid] <= 1
       /\ injector[uid] # NULL
            => /\ injector[uid] = NgAdapterInjector(ModuleInjector(uid))
               /\ lazyModuleRef[uid].injector = injector[uid]
       /\ lazyModuleRef[uid].injector \in {NULL, injector[uid]}
       /\ \A key \in {LazyInjectorKey(name)} \cap DOMAIN cache : cache[key] = injector[uid]
       /\ \A key \in {LazyModuleRefKey(name)} \cap DOMAIN cache : cache[key] = LazyModuleRefObj(uid)
       /\ (last.op = "get" /\ last.outcome = "return" /\ mine /\ last.key[1] = INJECTOR_KEY)
            => last.value = injector[uid]
       /\ (last.op = "get" /\ last.outcome = "return" /\ mine /\ last.key[1] = LAZY_MODULE_REF)
            => last.value = LazyModuleRefObj(uid)
C9_Witness ==
  /\ bootstrapCalls[1] = 1
  /\ injectorAssigns[1] = 1
  /\ LazyModuleRefKey(LazyModuleName(1)) \in DOMAIN cache
  /\ <<LAZY_MODULE_REF>> \in DOMAIN cache
  /\ LastLoaded = 1
  /\ last.op = "get"
  /\ last.key = <<INJECTOR_KEY>>
  /\ last.value = NgAdapterInjector(ModuleInjector(1))

\* C10: resolving a loaded lazy module's injector key throws at every moment
\* before the module's bootstrap has completed (its promise resolved and the
\* continuation run), and returns the wrapped injector of the bootstrapped module
\* at every moment after.
C10_InjectorKey ==
  \A uid \in Loaded :
    /\ (bootstrap[uid] # "resolved") => ResolveInjectorKey(uid).outcome = "throw"
    /\ (bootstrap[uid] = "resolved")
          => ResolveInjectorKey(uid) =
               [outcome |-> "return", value |-> NgAdapterInjector(ModuleInjector(uid))]
    /\ (last.op = "get" /\ last.key = LazyInjectorKey(LazyModuleName(uid)))
          => /\ last.outcome \in {"throw", "return"}
             /\ last.outcome = "return"
                  => /\ bootstrap[uid] = "resolved"
                     /\ last.value = NgAdapterInjector(ModuleInjector(uid))
             /\ last.outcome = "throw" => last.value = NULL
C10_Witness ==
  /\ bootstrap[1] = "resolved"
  /\ bootstrap[2] = "pending"
  /\ 2 \in Loaded
  /\ last.op = "get"
  /\ last.key = LazyInjectorKey(LazyModuleName(1))
  /\ last.outcome = "return"

\* C12: a callback passed to then() before resolve() is queued and not invoked by
\* that then() call; the resolve() call invokes it, once, with the injector it
\* was given; no callback is ever invoked twice.
C12_QueuedCallbackOnce ==
  \A e \in Elements :
    /\ (lastPip.op = "then" /\ lastPip.e = e /\ pip[e].injector = NULL)
          => /\ lastPip.invoked = 0
             /\ lastPip.cb \in Queued(e)
    /\ \A cb \in Queued(e) : Invocations(e, cb) = 0
    /\ \A cb \in 1..pip[e].thens :
          /\ Invocations(e, cb) <= 1
          /\ cb \notin Queued(e) => Invocations(e, cb) = 1
    /\ \A i \in DOMAIN cbCalls[e] :
          cbCalls[e][i].by = "resolve" => cbCalls[e][i].arg = data[e]
    /\ (lastPip.op = "resolve" /\ lastPip.e = e /\ lastPip.outcome = "return")
          => /\ lastPip.invoked = Len(cbCalls[e])
             /\ \A cb \in 1..pip[e].thens : Invocations(e, cb) = 1
C12_Witness ==
  /\ lastPip.op = "resolve"
  /\ lastPip.outcome = "throw"
  /\ pip[1].thens = 3
  /\ Len(FlushedBy(1)) = 2
  /\ \A cb \in 1..3 : Invocations(1, cb) = 1

\* C13: a callback passed to then() after resolve() is invoked inside that then()
\* call, once, with the injector the promise holds, and is not queued.
C13_ThenAfterResolve ==
  \A e \in Elements :
    /\ (lastPip.op = "then" /\ lastPip.e = e /\ pip[e].injector # NULL)
          => /\ lastPip.invoked = 1
             /\ lastPip.queued = 0
             /\ lastPip.cb \notin Queued(e)
             /\ Invocations(e, lastPip.cb) = 1
             /\ LET c == cbCalls[e][Len(cbCalls[e])]
                IN /\ c.cb = lastPip.cb
                   /\ c.by = "then"
                   /\ c.arg = pip[e].injector
                   /\ c.arg \in ResolveInjectors
    /\ \A i \in DOMAIN cbCalls[e] :
          cbCalls[e][i].by = "then" => cbCalls[e][i].arg \in ResolveInjectors
C13_Witness ==
  /\ lastPip.op = "then"
  /\ lastPip.invoked = 1
  /\ pip[1].injector = ComponentInjector(1)
  /\ Len(FlushedBy(1)) = 1
  /\ Len(cbCalls[1]) = 2
  /\ cbCalls[1][2].by = "then"

\* C14: resolve() invokes the callbacks queued before it in the order of their
\* registration, all of them, and the queue is empty when it returns.
C14_FlushFifo ==
  \A e \in Elements :
    /\ \A i \in DOMAIN FlushedBy(e) : FlushedBy(e)[i].cb = i
    /\ \A i \in DOMAIN cbCalls[e] :
          cbCalls[e][i].by = "then" => cbCalls[e][i].cb > Len(FlushedBy(e))
    /\ (pip[e].made /\ ~pip[e].element)
          => /\ pip[e].callbacks = <<>>
             /\ \A cb \in 1..pip[e].thens : Invocations(e, cb) = 1
    /\ (lastPip.op = "resolve" /\ lastPip.e = e /\ lastPip.outcome = "return")
          => /\ lastPip.queued = 0
             /\ lastPip.invoked = pip[e].thens
             /\ cbCalls[e] = FlushedBy(e)
C14_Witness ==
  /\ lastPip.op = "resolve"
  /\ lastPip.outcome = "return"
  /\ lastPip.invoked = 3
  /\ pip[1].callbacks = <<>>
  /\ cbCalls[1][1].cb = 1
  /\ cbCalls[1][3].cb = 3

\* C15: from its construction until resolve() the element's data holds the promise
\* object; from resolve() on it holds the injector and the promise no longer
\* references the element; every queued callback runs after the swap and the release.
C15_DataSwap ==
  \A e \in Elements :
    /\ ~pip[e].made => data[e] = NULL
    /\ (pip[e].made /\ pip[e].element)
          => /\ data[e] = PipObj(e)
             /\ pip[e].injector = NULL
             /\ cbCalls[e] = <<>>
    /\ (pip[e].made /\ ~pip[e].element)
          => /\ data[e] \in ResolveInjectors
             /\ pip[e].injector \in ResolveInjectors
    /\ \A i \in DOMAIN cbCalls[e] :
          cbCalls[e][i].by = "resolve"
             => /\ cbCalls[e][i].data = cbCalls[e][i].arg
                /\ cbCalls[e][i].data = data[e]
                /\ ~cbCalls[e][i].element
C15_Witness ==
  /\ pip[1].made
  /\ ~pip[1].element
  /\ data[1] = ComponentInjector(2)
  /\ Len(FlushedBy(1)) = 2
  /\ lastPip.op = "resolve"
  /\ lastPip.outcome = "return"

\* the link on element e looked up the lazy module uid (before or after its
\* bootstrap failed) and got its promise
WaitsOn(e, uid) ==
  /\ link[e].state # "none"
  /\ link[e].moduleInjector = ModulePromise(uid)

\* where x first stands in the sequence s, 0 if nowhere
Pos(s, x) ==
  IF \E i \in DOMAIN s : s[i] = x THEN Min({i \in DOMAIN s : s[i] = x}) ELSE 0
\* how often x stands in the sequence s
Count(s, x) == Cardinality({i \in DOMAIN s : s[i] = x})
\* the calls doDowngrade makes on the adapter, and all its steps up to resolve
AdapterOps ==
  {"compileContents", "createComponent", "setupInputs", "setupOutputs", "registerCleanup"}
\* link on element e got as far as the two final injectors and both were plain
PlainAtLink(e) ==
  /\ link[e].state # "none"
  /\ FinalParentInjector(link[e]) # NULL
  /\ ~(FinalParentInjector(link[e]).kind \in {"Promise", "ParentInjectorPromise"})
  /\ ~(FinalModuleInjector(link[e]).kind \in {"Promise", "ParentInjectorPromise"})
\* link on element e handed at least one promise to Promise.all
PromiseAtLink(e) ==
  /\ link[e].state # "none"
  /\ FinalParentInjector(link[e]) # NULL
  /\ \/ FinalParentInjector(link[e]).kind \in {"Promise", "ParentInjectorPromise"}
     \/ FinalModuleInjector(link[e]).kind \in {"Promise", "ParentInjectorPromise"}

\* C11: once the promise of a lazy module's bootstrap function has rejected,
\* the promise of the module's lazy-module reference is rejected, the module's
\* injector (the closure's and the reference's) is never assigned, the bootstrap
\* function has been called once and is not called again by later lookups, and
\* no link that waits on the module ever calls downgradeFn, makes a
\* ParentInjectorPromise or creates a component.
C11_RejectedBootstrap ==
  \A uid \in Uids :
    bootstrap[uid] = "rejected" =>
      /\ lazyModuleRef[uid].promise = "rejected"
      /\ injector[uid] = NULL
      /\ lazyModuleRef[uid].injector = NULL
      /\ injectorAssigns[uid] = 0
      /\ bootstrapCalls[uid] = 1
      /\ \A e \in Elements :
           WaitsOn(e, uid) =>
             /\ link[e].state \in {"waiting", "rejected"}
             /\ ~pip[e].made
             /\ Pos(log[e], "downgradeFn") = 0
             /\ \A op \in AdapterOps : Pos(log[e], op) = 0

\* a module whose bootstrap was rejected, with a link whose join has rejected
\* and a later link that looked the module up again and still waits
C11_Witness ==
  \E uid \in Uids, e, f \in Elements :
    /\ bootstrap[uid] = "rejected"
    /\ WaitsOn(e, uid) /\ link[e].state = "rejected"
    /\ WaitsOn(f, uid) /\ link[f].state = "waiting"
    /\ e < f
    /\ bootstrapCalls[uid] = 1

\* C20 (scenario C): once two (or more) lazy modules are loaded, every link of a
\* downgraded component that names no module has thrown from link itself, with
\* the "'downgradedModule' not specified" error of validateInjectionKey, before
\* any lookup and before anything was created, whether or not the element has a
\* parent injector.
C20_NoNameThrows ==
  \A e \in Elements :
    (link[e].state # "none" /\ Len(loaded) >= 2 /\ link[e].downgradedModule = <<>>) =>
      /\ link[e].state = "threw"
      /\ link[e].error = "not specified"
      /\ log[e] = <<"link", "validateInjectionKey", "throw">>
      /\ ~pip[e].made

\* two lazy modules, an element below a downgraded component whose injector it
\* requires, no module name: the link has thrown
C20_Witness ==
  \E e \in Elements :
    /\ Len(loaded) = 2
    /\ link[e].downgradedModule = <<>>
    /\ link[e].anc # 0
    /\ link[e].parentInjector # NULL
    /\ link[e].state = "threw"
    /\ link[e].error = "not specified"

\* scenario A: one lazy module is loaded, and link on element e, which has no
\* downgraded ancestor and no parent injector, passed validateInjectionKey
ScenarioA(rec) ==
  /\ Len(loaded) = 1
  /\ rec.state # "none"
  /\ rec.anc = 0
  /\ rec.parentInjector = NULL
  /\ rec.downgradedModule \in {<<>>, LazyModuleName(loaded[1])}

\* C16 (scenario A) as stated: with one lazy module and an element without
\* ancestor injector, whenever link has returned the adapter was given the
\* bootstrapped injector of the module and createComponent came before the return.
C16_CreatedWithinEveryLink ==
  \A e \in Elements :
    (ScenarioA(link[e]) /\ Pos(log[e], "return") > 0) =>
      /\ Pos(log[e], "createComponent") > 0
      /\ Pos(log[e], "createComponent") < Pos(log[e], "return")
      /\ link[e].resolver = injector[loaded[1]]
      /\ injector[loaded[1]] # NULL

\* C16 (scenario A) amended: with one lazy module and an element without ancestor
\* injector, a link invoked when the module's injector has been assigned gets
\* that injector as module injector and as parent injector and runs doDowngrade
\* inside the call (createComponent precedes the return); a link invoked before
\* that, the one that starts the bootstrap included, gets the module's promise,
\* returns with nothing created, and when its component is created later the
\* adapter still has the bootstrapped injector.
C16_CreatedWithinLinkOnceBootstrapped ==
  [][\A e \in Elements :
       /\ (link[e].state = "none" /\ ScenarioA(link'[e])) =>
            LET uid == loaded[1]
            IN IF injector[uid] # NULL
                 THEN /\ link'[e].moduleInjector = injector[uid]
                      /\ link'[e].resolver = injector[uid]
                      /\ link'[e].injector = injector[uid]
                      /\ link'[e].state \in {"creating", "threw"}
                      /\ Pos(log'[e], "Promise.all") = 0
                      /\ Pos(log'[e], "return") = 0
                 ELSE /\ link'[e].moduleInjector = ModulePromise(uid)
                      /\ link'[e].state = "waiting"
                      /\ Pos(log'[e], "return") > 0
                      /\ Pos(log'[e], "resolveComponentFactory") = 0
                      /\ ~pip'[e].made
       /\ (ScenarioA(link'[e]) /\ link'[e].state = "done") =>
            /\ link'[e].resolver = injector'[loaded'[1]]
            /\ link'[e].resolver = NgAdapterInjector(ModuleInjector(loaded'[1]))
            /\ link'[e].path = "sync" =>
                 Pos(log'[e], "createComponent") < Pos(log'[e], "return")
            /\ link'[e].path = "async" =>
                 Pos(log'[e], "createComponent") > Pos(log'[e], "return")]_vars

\* one lazy module, two elements without ancestor: the first link started the
\* bootstrap and its component was created after it returned, the second found
\* the injector and created its component within the call
C16_Witness ==
  \E e, f \in Elements :
    /\ ScenarioA(link[e]) /\ ScenarioA(link[f])
    /\ link[e].state = "done" /\ link[e].path = "async"
    /\ link[e].moduleInjector = ModulePromise(loaded[1])
    /\ link[f].state = "done" /\ link[f].path = "sync"
    /\ link[f].moduleInjector = injector[loaded[1]]
    /\ link[f].resolver = link[e].resolver

\* C17: when the effective parent injector and the effective module injector
\* were both plain injectors at link time, then by the time link has returned
\* compileContents, createComponent, setupInputs, setupOutputs, registerCleanup
\* and the resolve of the element's ParentInjectorPromise have all been done, in
\* that order, before the return; nothing was left to Promise.all.
C17_SyncWithinLink ==
  \A e \in Elements :
    (PlainAtLink(e) /\ Pos(log[e], "return") > 0) =>
      /\ \A op \in AdapterOps \cup {"resolve"} :
           Pos(log[e], op) > 0 /\ Pos(log[e], op) < Pos(log[e], "return")
      /\ Pos(log[e], "compileContents") < Pos(log[e], "createComponent")
      /\ Pos(log[e], "registerCleanup") < Pos(log[e], "resolve")
      /\ Pos(log[e], "Promise.all") = 0
      /\ pip[e].injector = ComponentInjector(e)
      /\ data[e] = ComponentInjector(e)

\* a link that found its module already bootstrapped, ran doDowngrade itself
\* and has returned
C17_Witness ==
  \E e \in Elements, uid \in Uids :
    /\ PlainAtLink(e)
    /\ link[e].moduleInjector = injector[uid]
    /\ injector[uid] # NULL
    /\ link[e].state = "done"
    /\ Pos(log[e], "return") > 0

\* C18 (scenario B): a link that found its module not yet bootstrapped holds the
\* module's promise. Whatever doDowngrade has done for its element (the call of
\* downgradeFn, the new ParentInjectorPromise, any adapter operation), the
\* module's promise was fulfilled and its injector assigned before, the parent
\* injector, if it was a ParentInjectorPromise, was resolved before, link had
\* returned before, and the injectors used are the settled values.
C18_DeferredUntilSettled ==
  \A e \in Elements :
    (link[e].state # "none" /\ link[e].moduleInjector.kind = "Promise") =>
      LET uid == link[e].moduleInjector.of
          begun == \/ pip[e].made
                   \/ Pos(log[e], "downgradeFn") > 0
                   \/ Pos(log[e], "resolveComponentFactory") > 0
                   \/ \E op \in AdapterOps : Pos(log[e], op) > 0
      IN begun =>
           /\ lazyModuleRef[uid].promise = "fulfilled"
           /\ injector[uid] # NULL
           /\ link[e].resolver = injector[uid]
           /\ link[e].parentInjector # NULL /\ link[e].parentInjector.kind = "ParentInjectorPromise"
                => /\ pip[link[e].anc].injector # NULL
                   /\ link[e].injector = pip[link[e].anc].injector
           /\ Pos(log[e], "return") > 0
           /\ Pos(log[e], "return") < Pos(log[e], "downgradeFn")
           /\ \A op \in AdapterOps :
                Pos(log[e], op) > 0 => Pos(log[e], "downgradeFn") < Pos(log[e], op)

\* a link that waited for its module's bootstrap and has created its component
C18_Witness ==
  \E e \in Elements :
    /\ link[e].moduleInjector.kind = "Promise"
    /\ link[e].state = "done"
    /\ Pos(log[e], "createComponent") > Pos(log[e], "return")
    /\ Pos(log[e], "return") > 0

QualifiedKeys(uid) ==
  {LazyModuleRefKey(LazyModuleName(uid)), LazyInjectorKey(LazyModuleName(uid))}

\* C21: a call of $injector.get with the module-qualified lazy-module-reference
\* key or injector key of a lazy module a leaves every other lazy module b as it
\* was (bootstrapFn of b not called, its promise, its record and its injector
\* untouched) and, when it returns, returns the record or the injector of a,
\* never those of b; in every order of registration, loading and bootstrap.
C21_QualifiedKeysIsolated ==
  [][\A a \in Uids :
       (last' # last /\ last'.op = "get" /\ last'.key \in QualifiedKeys(a)) =>
         /\ \A b \in Uids \ {a} :
              /\ bootstrapCalls'[b] = bootstrapCalls[b]
              /\ bootstrap'[b] = bootstrap[b]
              /\ lazyModuleRef'[b] = lazyModuleRef[b]
              /\ injector'[b] = injector[b]
              /\ last'.value # LazyModuleRefObj(b)
              /\ last'.value # NgAdapterInjector(ModuleInjector(b))
         /\ last'.outcome = "return" =>
              last'.value = IF last'.key = LazyModuleRefKey(LazyModuleName(a))
                              THEN LazyModuleRefObj(a)
                              ELSE NgAdapterInjector(ModuleInjector(a))]_vars

\* two lazy modules loaded and both bootstrapped, the second before the first,
\* and the injector key of the first has just been resolved
C21_Witness ==
  /\ Len(loaded) >= 2
  /\ bootstrap[1] = "resolved"
  /\ bootstrap[2] = "resolved"
  /\ bootstrapCalls[1] = 1
  /\ bootstrapCalls[2] = 1
  /\ last.op = "get"
  /\ last.key = LazyInjectorKey(LazyModuleName(1))
  /\ last.outcome = "return"
  /\ last.value = NgAdapterInjector(ModuleInjector(1))

\* doDowngrade has been called for element e
Begun(e) ==
  \/ pip[e].made
  \/ Pos(log[e], "downgradeFn") > 0
  \/ Pos(log[e], "resolveComponentFactory") > 0

\* C22: a link on an element below a downgraded ancestor gets as required[0]
\* what the ancestor's element holds. If that is the ancestor's unresolved
\* ParentInjectorPromise, the link returns first and its doDowngrade runs only
\* after the ancestor's resolve, with the ancestor component's own injector (the
\* value resolve was given) as parent injector. If the ancestor was resolved
\* before, it is the raw injector: the link subscribes to nothing and has the
\* ancestor component's injector as parent injector from the start, and runs
\* doDowngrade within the call unless it must wait for its module.
C22_ChildParentInjector ==
  \A e \in Elements :
    (link[e].state # "none" /\ link[e].anc # 0 /\ link[e].parentInjector # NULL) =>
      LET anc == link[e].anc
          own == Obj("ComponentInjector", anc)
      IN /\ link[e].parentInjector \in {PipObj(anc), own}
         /\ link[e].parentInjector = PipObj(anc) =>
              /\ FinalParentInjector(link[e]) = PipObj(anc)
              /\ Pos(log[e], "return") > 0 => Pos(log[e], "Promise.all") > 0
              /\ Begun(e) =>
                   /\ pip[anc].injector = own
                   /\ data[anc] = own
                   /\ link[anc].state = "done"
                   /\ link[e].injector = own
                   /\ Pos(log[e], "return") < Pos(log[e], "downgradeFn")
                   /\ \A cb \in link[e].cbs :
                        \A i \in DOMAIN cbCalls[anc] :
                          cbCalls[anc][i].cb = cb => cbCalls[anc][i].arg = own
         /\ link[e].parentInjector = own =>
              /\ pip[anc].injector = own
              /\ link[e].cbs = {} /\ link[e].subs = 0
              /\ Pos(log[e], "then") = 0
              /\ link[e].state \in {"creating", "done", "waiting", "failed", "rejected"}
                   => link[e].injector = own
              /\ (PlainAtLink(e) /\ Pos(log[e], "return") > 0)
                   => Pos(log[e], "createComponent") \in 1..Pos(log[e], "return")

\* a child that was linked inside its ancestor's compileContents and whose
\* component has been created, after the ancestor's
C22_Witness ==
  \E e \in Elements :
    /\ link[e].anc # 0
    /\ link[e].parentInjector = PipObj(link[e].anc)
    /\ link[e].state = "done"
    /\ link[e].injector = Obj("ComponentInjector", link[e].anc)
    /\ link[link[e].anc].state = "done"

\* the steps of a doDowngrade that creates a component, in the order of the source
CreationOrder ==
  <<"new ParentInjectorPromise", "compileContents", "createComponent", "setupInputs",
    "setupOutputs", "registerCleanup", "getInjector", "resolve">>
\* the steps of CreationOrder that element e has logged, in the order logged
CreationSteps(e) ==
  SelectSeq(log[e], LAMBDA x : \E i \in DOMAIN CreationOrder : CreationOrder[i] = x)

\* C23: for every element whose component has been created, each of
\* compileContents, createComponent, setupInputs, setupOutputs, registerCleanup
\* and getInjector was called once, in this order; the element's
\* ParentInjectorPromise was constructed before compileContents and resolved
\* after registerCleanup, with the injector getInjector returned. While the
\* contents are being linked only the promise and compileContents have happened.
C23_CreationOrder ==
  \A e \in Elements :
    /\ link[e].state = "done" =>
         /\ CreationSteps(e) = CreationOrder
         /\ pip[e].injector = Obj("ComponentInjector", e)
         /\ data[e] = Obj("ComponentInjector", e)
    /\ link[e].state = "creating" =>
         /\ CreationSteps(e) = SubSeq(CreationOrder, 1, 2)
         /\ pip[e].made /\ pip[e].injector = NULL
         /\ data[e] = PipObj(e)

\* one component created within its link and one created after a wait
C23_Witness ==
  \E e, f \in Elements :
    /\ link[e].state = "done" /\ link[e].path = "sync"
    /\ link[f].state = "done" /\ link[f].path = "async"
    /\ Pos(log[e], "resolve") > Pos(log[e], "registerCleanup")
    /\ Pos(log[f], "resolve") > Pos(log[f], "registerCleanup")

\* the injector a value stands for: the component's injector for a
\* ParentInjectorPromise, the bootstrapped module's injector for a module's
\* promise, the value itself for an injector
InjectorBehind(x) ==
  CASE x.kind = "ParentInjectorPromise" -> Obj("ComponentInjector", x.of)
    [] x.kind = "Promise" -> NgAdapterInjector(ModuleInjector(x.of))
    [] OTHER -> x

\* C24: whenever doDowngrade runs for an element, the injector given to the
\* adapter is the ancestor injector (required[0]) if link had one and otherwise
\* the module injector it looked up, and the injector asked for the component
\* factory is the module injector if link looked one up and otherwise the
\* ancestor injector; where link held a promise, it is the injector the promise
\* was fulfilled with. At least one of the two is there in every link that gets
\* this far.
C24_InjectorRoles ==
  \A e \in Elements :
    Begun(e) =>
      LET parent == link[e].parentInjector
          module == link[e].moduleInjector
      IN /\ parent # NULL \/ module # NULL
         /\ link[e].injector = InjectorBehind(IF parent # NULL THEN parent ELSE module)
         /\ link[e].resolver = InjectorBehind(IF module # NULL THEN module ELSE parent)
         /\ link[e].injector # NULL
         /\ link[e].resolver # NULL

\* a component created below a downgraded ancestor in an application with two
\* lazy modules: parent injector from the ancestor, factory from its own module
C24_Witness ==
  \E e \in Elements :
    /\ link[e].state = "done"
    /\ link[e].parentInjector # NULL
    /\ link[e].moduleInjector # NULL
    /\ link[e].injector = Obj("ComponentInjector", link[e].anc)
    /\ link[e].resolver.kind = "NgAdapterInjector"
    /\ link[e].resolver # link[link[e].anc].resolver

\* C25: a link calls validateInjectionKey, and after a successful validation
\* $injector.get, for its component's lazy-module reference if and only if the
\* element has no ancestor injector or more than one lazy module is loaded. A
\* link with an ancestor injector in an application with at most one lazy
\* module looks nothing up: the call leaves $injector's instances, every
\* module's bootstrap and the cell as they were, has no module injector of its
\* own, and uses the ancestor injector in both roles.
C25_LookupIff ==
  [][\A e \in Elements :
       link'[e].state # "none" =>
         LET rec == link'[e]
             lookup == rec.parentInjector = NULL \/ Len(loaded') > 1
         IN /\ Pos(log'[e], "validateInjectionKey") > 0 <=> lookup
            /\ Pos(log'[e], "$injector.get") > 0 =>
                 Pos(log'[e], "validateInjectionKey") > 0
            /\ (lookup /\ rec.error \notin {"not specified", "unable to find",
                                           "unexpectedly specified", "not a valid application"})
                 => Pos(log'[e], "$injector.get") > 0
            /\ ~lookup =>
                 /\ rec.moduleInjector = NULL
                 /\ Begun(e)' => /\ rec.injector = InjectorBehind(rec.parentInjector)
                                 /\ rec.resolver = InjectorBehind(rec.parentInjector)
                 /\ link[e].state = "none" =>
                      /\ cache' = cache
                      /\ bootstrapCalls' = bootstrapCalls
                      /\ bootstrap' = bootstrap
                      /\ lazyModuleRef' = lazyModuleRef
                      /\ tempInjectorRef' = tempInjectorRef
                      /\ last' = last]_vars

\* one lazy module, a component created below a downgraded ancestor: no lookup,
\* the ancestor's injector in both roles
C25_Witness ==
  \E e \in Elements :
    /\ Len(loaded) = 1
    /\ link[e].state = "done"
    /\ link[e].parentInjector # NULL
    /\ link[e].moduleInjector = NULL
    /\ Pos(log[e], "validateInjectionKey") = 0
    /\ link[e].injector = link[e].resolver
    /\ link[e].injector = Obj("ComponentInjector", link[e].anc)

\* C26: when resolveComponentFactory has returned no factory for the component,
\* doDowngrade has thrown "Expecting ComponentFactory" at once: no
\* ParentInjectorPromise was constructed for the element, no adapter operation
\* was called, the element's data is what it was before the link (nothing), and
\* scope.$evalAsync was not called. If both final injectors were plain the error
\* left link itself, which never returned; if link had handed a promise to
\* Promise.all it had returned before, and the error rejects the promise of the
\* continuation that called downgradeFn.
C26_MissingFactory ==
  \A e \in Elements :
    (Pos(log[e], "resolveComponentFactory") > 0 /\ ~link[e].hasFactory) =>
      /\ link[e].error = "Expecting ComponentFactory"
      /\ log[e][Len(log[e])] = "throw"
      /\ Pos(log[e], "throw") = Pos(log[e], "resolveComponentFactory") + 1
      /\ ~pip[e].made
      /\ data[e] = NULL
      /\ Pos(log[e], "new ParentInjectorPromise") = 0
      /\ \A op \in AdapterOps \cup {"getInjector", "resolve", "$evalAsync"} :
           Pos(log[e], op) = 0
      /\ running # e
      /\ PlainAtLink(e) =>
           /\ link[e].state = "threw"
           /\ Pos(log[e], "return") = 0
           /\ Pos(log[e], "Promise.all") = 0
      /\ PromiseAtLink(e) =>
           /\ link[e].state = "failed"
           /\ Pos(log[e], "return") > 0
           /\ Pos(log[e], "return") < Pos(log[e], "downgradeFn")
           /\ Pos(log[e], "downgradeFn") < Pos(log[e], "resolveComponentFactory")

\* a link that threw for want of a factory, and one whose continuation did
C26_Witness ==
  \E e, f \in Elements :
    /\ link[e].state = "threw" /\ link[e].error = "Expecting ComponentFactory"
    /\ PlainAtLink(e)
    /\ link[f].state = "failed" /\ link[f].error = "Expecting ComponentFactory"
    /\ PromiseAtLink(f)

\* C27: how doDowngrade is entered depends on the mode alone. In lite mode it
\* runs in the Angular zone: called directly when the caller is in the zone
\* already, through ngZone.run (before anything else doDowngrade does) when it
\* is not, and setupInputs is told to wrap (true). In the legacy modes doDowngrade
\* is called as it is, the zone is neither looked at nor entered, and setupInputs
\* is told false.
C27_ZoneByMode ==
  \A e \in Elements :
    Begun(e) =>
      LET inZone == /\ link[e].parentInjector # NULL
                    /\ link[e].parentInjector.kind = "ParentInjectorPromise"
      IN /\ GetUpgradeAppType(constants) = AppTypeLite =>
              /\ link[e].zone = IF inZone THEN "direct" ELSE "run"
              /\ link[e].zone = "run" =>
                   /\ Count(log[e], "ngZone.run") = 1
                   /\ Pos(log[e], "ngZone.run") < Pos(log[e], "resolveComponentFactory")
              /\ link[e].zone = "direct" => Count(log[e], "ngZone.run") = 0
              /\ link[e].state = "done" => link[e].needsNgZone = TRUE
         /\ GetUpgradeAppType(constants) \in {AppTypeDynamic, AppTypeStatic} =>
              /\ link[e].zone = "unwrapped"
              /\ Count(log[e], "ngZone.run") = 0
              /\ link[e].state = "done" => link[e].needsNgZone = FALSE
         /\ GetUpgradeAppType(constants) \in {AppTypeLite, AppTypeDynamic, AppTypeStatic}

\* lite mode: a component created through ngZone.run and, inside its
\* doDowngrade, a child whose doDowngrade was called directly
C27_Witness ==
  \E e, f \in Elements :
    /\ GetUpgradeAppType(constants) = AppTypeLite
    /\ link[e].state = "done" /\ link[e].zone = "run" /\ link[e].needsNgZone = TRUE
    /\ link[f].state = "done" /\ link[f].zone = "direct" /\ link[f].needsNgZone = TRUE
    /\ link[f].anc = e

\* C28 as stated: every read of the cell by a bootstrap chain finds a value (no
\* read throws on an empty cell), and finds exactly one write since the read
\* before it, the one made for its own chain, whose value it returns.
C28_WriteThenReadOnce ==
  /\ cellRead.outcome # "throw"
  /\ cellRead.outcome = "return" =>
       /\ Len(cellRead.writes) = 1
       /\ cellRead.value = cellRead.writes[1]

C30_CellEmptyWhenIdle ==
  (\A uid \in Uids : bootstrap[uid] # "pending") => tempInjectorRef = NULL

\* C31 as stated: a link that waits on a lazy module whose bootstrap function's
\* promise has resolved eventually creates its component and resolves its
\* ParentInjectorPromise, unless resolveComponentFactory finds no factory for it.
C31_WaitingLinkCompletes ==
  \A e \in Elements : \A uid \in Uids :
    (WaitsOn(e, uid) /\ link[e].state = "waiting" /\ bootstrap[uid] = "resolved")
      ~> \/ link[e].state = "done" /\ pip[e].injector = ComponentInjector(e)
         \/ link[e].state = "failed" /\ ~link[e].hasFactory

\* the errors validateInjectionKey throws
ValidationErrors ==
  {"unexpectedly specified", "not specified", "unable to find", "not a valid application"}

\* C32: a link that fails validation throws before $injector.get: the step
\* logs link, validateInjectionKey, throw and nothing else, and leaves the
\* lazy modules (no bootstrap started), the handoff cell, $injector, every
\* ParentInjectorPromise, every element's data and every other link as they
\* were; afterwards the link does nothing more (no ParentInjectorPromise, no
\* adapter operation, no $evalAsync).
C32_FailedValidationChangesNothing ==
  [][\A e \in Elements :
       /\ (link[e].state = "none" /\ link'[e].state = "threw"
             /\ link'[e].error \in ValidationErrors) =>
            /\ log'[e] = <<"link", "validateInjectionKey", "throw">>
            /\ link'[e].moduleInjector = NULL
            /\ \A o \in Elements \ {e} : link'[o] = link[o] /\ log'[o] = log[o]
            /\ UNCHANGED <<ngVars, moduleUid, returned, lazyVars, cellVars, diVars, last,
                           pipVars, running>>
       /\ (link[e].state = "threw" /\ link[e].error \in ValidationErrors) =>
            /\ link'[e] = link[e] /\ log'[e] = log[e]
            /\ pip'[e] = NoPip /\ data'[e] = NULL]_vars

\* a link has thrown "not specified" with nothing started, and is as it was
\* after another element has been linked and its component created
C32_Witness ==
  /\ link[1].state = "threw" /\ link[1].error = "not specified"
  /\ log[1] = <<"link", "validateInjectionKey", "throw">>
  /\ ~pip[1].made /\ data[1] = NULL
  /\ bootstrapCalls[1] + bootstrapCalls[2] = 1
  /\ link[2].state = "done"

\* C33: the link whose $injector.get runs the lazyModuleRef factory of a module
\* (its bootstrap function is called in that step) finds no injector in the
\* record, takes the module's pending promise for moduleInjector, hands it to
\* Promise.all and returns with nothing created: no downgradeFn call, no
\* ParentInjectorPromise, no adapter operation, whether or not the element has
\* an ancestor injector.
C33_FirstLinkDeferred ==
  [][\A e \in Elements : \A uid \in Uids :
       (link[e].state = "none" /\ link'[e].state # "none"
          /\ bootstrap[uid] = "not started" /\ bootstrap'[uid] = "pending") =>
         /\ lazyModuleRef'[uid].injector = NULL
         /\ lazyModuleRef'[uid].promise = "pending"
         /\ link'[e].moduleInjector = ModulePromise(uid)
         /\ link'[e].resolver = ModulePromise(uid)
         /\ link'[e].state = "waiting" /\ link'[e].path = "async"
         /\ link'[e].ranAsync
         /\ log'[e] = <<"link", "validateInjectionKey", "$injector.get", "Promise.all", "return">>
         /\ pip'[e] = NoPip /\ data'[e] = NULL
         /\ running' = running]_vars

\* the first link of a lazy module, on an element without ancestor injector,
\* has returned and waits on the bootstrap it started
C33_Witness ==
  \E e \in Elements : \E uid \in Uids :
    /\ link[e].state = "waiting" /\ link[e].parentInjector = NULL
    /\ link[e].moduleInjector = ModulePromise(uid)
    /\ bootstrap[uid] = "pending" /\ bootstrapCalls[uid] = 1
    /\ \A o \in Elements \ {e} : ~WaitsOn(o, uid)
    /\ log[e] = <<"link", "validateInjectionKey", "$injector.get", "Promise.all", "return">>
    /\ ~pip[e].made

\* C35: once an adapter call of doDowngrade has thrown on element e (its
\* ParentInjectorPromise was constructed before), the promise is unresolved and
\* stays so: resolve was never called, the element's data is the promise
\* object, the promise has invoked no callback, the callbacks descendants
\* queued on it are still queued, and no descendant that was given the promise
\* has called downgradeFn.
C35_FailedAdapterNeverResolves ==
  \A e \in Elements :
    link[e].error \in ThrowingSteps =>
      /\ pip[e].made /\ pip[e].injector = NULL /\ pip[e].element
      /\ data[e] = PipObj(e)
      /\ log[e][Len(log[e])] = "throw"
      /\ \A i \in DOMAIN log[e] : log[e][i] \notin {"resolve", "$evalAsync"}
      /\ cbCalls[e] = <<>>
      /\ \A o \in Elements :
           (link[o].anc = e /\ link[o].parentInjector = PipObj(e)) =>
             /\ link[o].state = "waiting"
             /\ link[o].cbs \subseteq Queued(e)
             /\ ~pip[o].made

\* createComponent has thrown on an element whose descendant waits on its promise
C35_Witness ==
  \E e, o \in Elements :
    /\ link[e].error = "createComponent"
    /\ link[o].anc = e /\ link[o].state = "waiting"
    /\ link[o].cbs # {} /\ link[o].cbs \subseteq Queued(e)
    /\ data[e] = PipObj(e)

\* what decides the path of a link and what it creates, as logged by element e
PathSteps(e) ==
  SelectSeq(log[e], LAMBDA x : x \in {"Promise.all", "downgradeFn", "resolveComponentFactory",
                                      "new ParentInjectorPromise", "createComponent"})
\* s is an initial part of t
IsPrefix(s, t) == Len(s) <= Len(t) /\ s = SubSeq(t, 1, Len(s))

\* C34: a link calls doDowngrade either at once (synchronous path: never
\* Promise.all, never the continuation) or from the continuation of the one
\* Promise.all it made (asynchronous path: nothing created before the
\* continuation), never both; on either path resolveComponentFactory, new
\* ParentInjectorPromise and createComponent each happen at most once, in this
\* order.
C34_OnePathOneComponent ==
  \A e \in Elements :
    /\ link[e].path = "none" => PathSteps(e) = <<>>
    /\ link[e].path = "sync" =>
         /\ PathSteps(e) # <<>>
         /\ IsPrefix(PathSteps(e),
              <<"resolveComponentFactory", "new ParentInjectorPromise", "createComponent">>)
    /\ link[e].path = "async" =>
         /\ PathSteps(e) # <<>>
         /\ IsPrefix(PathSteps(e),
              <<"Promise.all", "downgradeFn", "resolveComponentFactory",
                "new ParentInjectorPromise", "createComponent">>)
    /\ link[e].path \in {"none", "sync", "async"}

\* one link has created its component on the synchronous path and another on
\* the asynchronous path
C34_Witness ==
  \E e, o \in Elements :
    /\ link[e].path = "sync" /\ link[e].state = "done"
    /\ PathSteps(e) = <<"resolveComponentFactory", "new ParentInjectorPromise", "createComponent">>
    /\ link[o].path = "async" /\ link[o].state = "done"
    /\ Len(PathSteps(o)) = 5

\* C36: a call of resolve() on a ParentInjectorPromise that was resolved before
\* finds that it has released its element: it throws, invokes no callback and leaves the
\* element's data as the first resolve() set it.
C36_SecondResolveThrows ==
  [][\A e \in Elements :
       (pip[e].made /\ pip[e].injector # NULL /\ pip'[e].thens = pip[e].thens) =>
         /\ ~pip[e].element
         /\ lastPip'.op = "resolve" /\ lastPip'.e = e
         /\ lastPip'.outcome = "throw"
         /\ lastPip'.invoked = 0
         /\ cbCalls' = cbCalls
         /\ data' = data
         /\ data[e] \in ResolveInjectors
         /\ pip'[e].element = FALSE]_vars

\* a second resolve(), with another injector, has thrown: the callbacks ran once
\* and the element's data is the injector of the first resolve()
C36_Witness ==
  \E e \in Elements :
    /\ lastPip.op = "resolve" /\ lastPip.outcome = "throw"
    /\ data[e] \in ResolveInjectors
    /\ pip[e].injector # data[e]
    /\ Len(cbCalls[e]) = 2
    /\ \A i \in DOMAIN cbCalls[e] : cbCalls[e][i].arg = data[e] /\ cbCalls[e][i].by = "resolve"

\* C37: whatever callbacks register further callbacks while resolve() runs the
\* queue, once resolve() has returned the queue is empty and every callback
\* ever passed to then() has been invoked exactly once; a callback registered
\* during the flush was invoked by then() itself, with the injector, right
\* after the invocation of the callback that registered it started, and the
\* flush leaves the queue as it found it (nothing is appended).
C37_ReentrantThen ==
  \A e \in Elements :
    /\ (pip[e].made /\ pip[e].element) =>
         \A inj \in ResolveInjectors, reentrant \in SUBSET DOMAIN pip[e].callbacks :
           LET f == FlushReentrant([pip[e] EXCEPT !.injector = inj, !.element = FALSE],
                                   e, pip[e].callbacks, 1, reentrant, inj)
           IN /\ f.pip.callbacks = pip[e].callbacks
              /\ Len(f.calls) = Len(pip[e].callbacks) + Cardinality(reentrant)
    /\ (pip[e].made /\ pip[e].injector # NULL) =>
      /\ pip[e].callbacks = <<>>
      /\ \A cb \in 1..pip[e].thens : Invocations(e, cb) = 1
      /\ \A i \in DOMAIN cbCalls[e] :
           /\ cbCalls[e][i].arg \in ResolveInjectors
           /\ cbCalls[e][i].data \in ResolveInjectors
           /\ ~cbCalls[e][i].element

\* resolve() has run a queue of two callbacks of which the first registered a
\* third: the third ran inside then(), between the two
C37_Witness ==
  \E e \in Elements :
    /\ lastPip.op = "resolve" /\ lastPip.outcome = "return" /\ lastPip.invoked = 3
    /\ [i \in 1..3 |-> cbCalls[e][i].cb] = <<1, 3, 2>>
    /\ [i \in 1..3 |-> cbCalls[e][i].by] = <<"resolve", "then", "resolve">>
    /\ pip[e].callbacks = <<>>

\* C38: in an UpgradeModule application (dynamic or static) a link that was
\* given an ancestor injector does not call validateInjectionKey and throws no
\* validation error, whatever downgradedModule it names; "unexpectedly
\* specified" is thrown by the links without ancestor injector that name a
\* module, and by no other link.
C38_LegacyAncestorNoValidation ==
  GetUpgradeAppType(constants) \in {AppTypeDynamic, AppTypeStatic} =>
    \A e \in Elements :
      link[e].state # "none" =>
        /\ link[e].parentInjector # NULL =>
             /\ link[e].error \notin ValidationErrors
             /\ \A i \in DOMAIN log[e] : log[e][i] \notin {"validateInjectionKey", "$injector.get"}
        /\ link[e].error = "unexpectedly specified" <=>
             (link[e].parentInjector = NULL /\ link[e].downgradedModule # <<>>)

\* in a static or dynamic application a component that names a module was
\* created on an element with an ancestor injector, and a link that names a
\* module on an element without one has thrown
C38_Witness ==
  /\ GetUpgradeAppType(constants) \in {AppTypeDynamic, AppTypeStatic}
  /\ \E e, o \in Elements :
       /\ link[e].parentInjector # NULL /\ link[e].downgradedModule # <<>>
       /\ link[e].state = "done"
       /\ link[o].parentInjector = NULL /\ link[o].downgradedModule # <<>>
       /\ link[o].state = "threw" /\ link[o].error = "unexpectedly specified"

\* C39: while $injector runs with exactly one lazy module loaded, the key
\* without module name and the key with the module's name both pass
\* validateInjectionKey, every $injector.get of either returns the one record
\* of that module (so the same injector or promise behind it), and the module's
\* bootstrap function has been called at most once, exactly once when both keys
\* have been looked up.
C39_EmptyNameSameRecord ==
  (Len(loaded) = 1 /\ phase = "run") =>
    LET uid == loaded[1]
        name == LazyModuleName(uid)
        both == {LazyModuleRefKey(<<>>), LazyModuleRefKey(name)}
    IN /\ ValidateInjectionKey(constants, factories, <<>>, LazyModuleRefKey(<<>>)) = "ok"
       /\ ValidateInjectionKey(constants, factories, name, LazyModuleRefKey(name)) = "ok"
       /\ \A key \in both \cap DOMAIN cache : cache[key] = LazyModuleRefObj(uid)
       /\ (last.op = "get" /\ last.key \in both) =>
            /\ last.outcome = "return"
            /\ last.value = LazyModuleRefObj(uid)
            /\ ModuleInjectorOf(last.value, lazyModuleRef) \in {injector[uid], ModulePromise(uid)}
       /\ bootstrapCalls[uid] <= 1
       /\ both \subseteq DOMAIN cache => bootstrapCalls[uid] = 1
       /\ \A o \in Uids \ {uid} : bootstrapCalls[o] = 0

\* with one lazy module loaded both keys have been looked up, the key without
\* name last, and the module's bootstrap function was called once
C39_Witness ==
  /\ Len(loaded) = 1 /\ phase = "run"
  /\ {LazyModuleRefKey(<<>>), LazyModuleRefKey(LazyModuleName(loaded[1]))} \subseteq DOMAIN cache
  /\ last.op = "get" /\ last.key = LazyModuleRefKey(<<>>)
  /\ last.value = LazyModuleRefObj(loaded[1])
  /\ bootstrapCalls[loaded[1]] = 1

\* C40: a call of an exported wrapper or getter reads `angular` when it is made:
\* while `angular` is the object of noNg functions every wrapper throws
\* 'AngularJS v1.x is not loaded!'; once setAngularJSGlobal(ng) has run,
\* getAngularJSGlobal() returns the ng set last and every wrapper calls the
\* function of that ng, whenever the wrapper was obtained; setAngularJSGlobal
\* makes no call itself.
C40_LateBound ==
  [][/\ ngCall' # ngCall =>
          /\ angular' = angular /\ version' = version
          /\ ngCall'.by = angular
          /\ ngCall'.f \in Getters => ngCall'.outcome = "return"
          /\ (ngCall'.f \in Wrappers /\ angular = NoNgStub) =>
               /\ ngCall'.outcome = "throw"
               /\ ngCall'.error = "AngularJS v1.x is not loaded!"
          /\ (ngCall'.f \in Wrappers /\ angular \in Globals) =>
               /\ ngCall'.outcome = "return"
               /\ ngCall'.error = "none"
     /\ angular' # angular =>
          /\ angular' \in Globals \cup {NULL}
          /\ version' = VersionOf(angular')
          /\ ngCall' = ngCall]_vars

\* after a wrapper threw for want of AngularJS, a second global was set and
\* module() was called on it
C40_Witness ==
  /\ angular = Obj("angular", 2)
  /\ version = Obj("version", 2)
  /\ ngCall = NgCall("module", "return", "none", Obj("angular", 2))

(***************************************************************************)
(* Specifications.                                                     *)
(***************************************************************************)
\* the exported cell functions, called directly in any order
NextCell ==
  \/ \E inj \in Ng1Injectors : CellSet(inj)
  \/ CellGet

SpecCell == Init /\ [][NextCell]_vars

\* one ParentInjectorPromise used directly: construction, then() and resolve()
\* (promises of different elements share no state)
NextPromise ==
  \/ PipConstruct(Min(Elements))
  \/ PipThenCall(Min(Elements))
  \/ \E inj \in ResolveInjectors : PipResolveCall(Min(Elements), inj)

SpecPromise == Init /\ [][NextPromise]_vars

\* the same promise with callbacks that call then() while resolve() runs them
NextReentrant ==
  \/ PipConstruct(Min(Elements))
  \/ PipThenCall(Min(Elements))
  \/ \E inj \in ResolveInjectors, reentrant \in SUBSET (1..MaxThens) :
       PipResolveReentrantCall(Min(Elements), inj, reentrant)

SpecReentrant == Init /\ [][NextReentrant]_vars

\* the exports of common/angular1.js that deal with the AngularJS global, called
\* in any order; a caller may pass an AngularJS global or nothing
NextNg ==
  \/ \E ng \in Globals \cup {NULL} : SetAngularJSGlobal(ng)
  \/ \E f \in Getters : GetAngularJSGlobal(f)
  \/ \E f \in Wrappers : WrapperCall(f)

SpecNg == Init /\ [][NextNg]_vars

\* registration, loading and validation
NextValidate ==
  \/ DowngradeModule
  \/ \E uid \in Uids : LoadModule(uid)
  \/ Ng1Ready
  \/ \E name \in Names, key \in Keys : Validate(name, key)

SpecValidate == Init /\ [][NextValidate]_vars

\* info.downgradedModule of a downgraded component: none, or a name that
\* downgradeModule() can return (the name of a module that was not loaded is as
\* unknown to $injector as any other)
LinkNames == {<<>>} \cup {LazyModuleName(u) : u \in Uids}

\* the elements are numbered in the order $compile links them
NextElement ==
  IF \E e \in Elements : link[e].state = "none"
    THEN Min({e \in Elements : link[e].state = "none"})
    ELSE Min(Elements)

\* downgraded components linked in the application: the modules are registered and
\* loaded before $injector runs, then come links, bootstraps and the jobs they
\* leave behind; while a doDowngrade is on the call stack only the links of the
\* contents it compiles can run
NextLink ==
  \/ phase = "config" /\ DowngradeModule
  \/ \E uid \in Uids : LoadModule(uid)
  \/ Ng1Ready
  \/ \E anc \in {0} \cup Elements, name \in LinkNames, hasFactory \in BOOLEAN :
       \E parent \in ParentInjectors(NextElement, anc) :
         Link(NextElement, anc, parent, name, hasFactory)
  \/ \E e \in Elements : LinkSubscribe(e)
  \/ \E e \in Elements, hasFactory \in BOOLEAN : DowngradeAsync(e, hasFactory)
  \/ \E e \in Elements : JoinRejects(e)
  \/ \E e \in Elements : DoDowngradeCompletes(e)
  \/ running = 0 /\ \E uid \in Uids : BootstrapResolves(uid)
  \/ running = 0 /\ \E uid \in Uids : BootstrapRejects(uid)

SpecLink == Init /\ [][NextLink]_vars

\* the same links, for the properties of what doDowngrade does once it runs
\* (injector roles, creation order, missing factory, zone handling)
SpecDowngrade == Init /\ [][NextLink]_vars

\* the jobs a link leaves behind are run by the event loop: the then() jobs of
\* Promise.all, its continuation or its rejection, and the rest of a doDowngrade
\* that is on the call stack; when a bootstrap settles is up to the application
LinkFairness ==
  \A e \in Elements :
    /\ WF_vars(LinkSubscribe(e))
    /\ WF_vars(\E hasFactory \in BOOLEAN : DowngradeAsync(e, hasFactory))
    /\ WF_vars(JoinRejects(e))
    /\ WF_vars(DoDowngradeCompletes(e))

\* downgraded components linked in an application without lazy modules (an
\* UpgradeModule application, or one that is no upgrade application at all),
\* with adapters whose calls can throw
NextAdapter ==
  \/ Ng1Ready
  \/ \E anc \in {0} \cup Elements, name \in LinkNames, hasFactory \in BOOLEAN :
       \E parent \in ParentInjectors(NextElement, anc) :
         Link(NextElement, anc, parent, name, hasFactory)
  \/ \E e \in Elements : LinkSubscribe(e)
  \/ \E e \in Elements, hasFactory \in BOOLEAN : DowngradeAsync(e, hasFactory)
  \/ \E e \in Elements : DoDowngradeCompletes(e)
  \/ \E e \in Elements, op \in ThrowingSteps : DoDowngradeThrows(e, op)

SpecAdapter == Init /\ [][NextAdapter]_vars

SpecLinkFair == Init /\ [][NextLink]_vars /\ LinkFairness

\* the application: registration, loading, lookups and bootstraps
Next ==
  \/ DowngradeModule
  \/ \E uid \in Uids : LoadModule(uid)
  \/ Ng1Ready
  \/ \E key \in Keys : Get(key)
  \/ \E uid \in Uids : BootstrapResolves(uid)
  \/ \E uid \in Uids : BootstrapRejects(uid)

Spec == Init /\ [][Next]_vars

=============================================================================
